---------------------------- MODULE Spec2Model ----------------------------
(***************************************************************************)
(* A model of the glowing-sphere simulation core: the frame loop of        *)
(* Game._animate with the CollisionSystem gate, star collection and the    *)
(* deferred level-complete callback, and the level life cycle              *)
(* (generateLevel, restartGame, nextLevel, restartStage).                  *)
(*                                                                         *)
(* Times are integers in milliseconds (deltaTime 0.016 s = 16).  The       *)
(* geometric tests of a frame (obstacle.checkCollision, checkCircle-       *)
(* Collision, the distance test of Star.checkCollection) are inputs of     *)
(* the frame: which entities the player touches is chosen freely, so the   *)
(* frame loop is explored under every contact pattern.                     *)
(*                                                                         *)
(* A frame is modelled per component: Animate is the collision and star    *)
(* part of _animate, PlayerFrame its player update.  Player (movement,     *)
(* dash, handbrake, the arena boundaries), SeededRandom (with the double   *)
(* arithmetic of next()) and MovingWall are also run on their own, each    *)
(* under its own specification.  Lengths are integers in thousandths of a  *)
(* world unit.                                                             *)
(***************************************************************************)
EXTENDS Integers, Sequences, FiniteSets, TLC

Max(a, b) == IF a >= b THEN a ELSE b
Min(a, b) == IF a <= b THEN a ELSE b

(* ----------------------------- bounds --------------------------------- *)
\* highest level number the model generates with nextLevel
MaxLevel == 2
\* most entities of one kind the player touches in one frame
MaxContacts == 1
\* most stars within collection range of the player in one frame
MaxInRange == 1
\* most setTimeout callbacks pending at once
MaxTimers == 1
\* highest level of the shield power-up in the saved progress
MaxShieldLevel == 2
\* highest level of the speed-boost power-up in the saved progress
MaxSpeedLevel == 1
\* most frames in which the player's velocity is followed
MaxMoveFrames == 2
\* most calls of SeededRandom.next() on one generator
MaxDraws == 20
\* incoming positions of a boundary check lie on a grid of GridStep
\* thousandths, MaxCoord steps to either side of the centre
MaxCoord == 8
GridStep == 2500
\* slack granted to the fixed-point arithmetic when a body is tested against
\* a containment region, in thousandths of a unit
Tol == 100
\* frames either of the two games of a determinism check runs
MaxDetFrames == 3
\* calls made on a generator and its clone
MaxCloneSteps == 5
\* levels whose arena shape is asked for
MaxShapeLevel == 60
\* levels, lives and Coin Magnet levels of a reward calculation
MaxRewardLevel == 3
MaxRewardLives == 3
MaxCoinLevel == 2
\* highest level whose stars and obstacles are placed
MaxGenLevel == 1
\* calls that touch the session seed, and the highest level they reach
MaxSeedCalls == 4
MaxSeedLevel == 3
\* most coins a session is followed to earn, and most levels completed
MaxCoins == 300
MaxCompleted == 1
\* frames a star is followed for
MaxMagnetFrames == 12

(* ------------------------ program constants --------------------------- *)
\* const deltaTime = 0.016 (seconds), here in milliseconds
DeltaTime == 16
\* COLLISION.INVINCIBILITY_DURATION = 2.0 (seconds), in milliseconds
INVINCIBILITY_DURATION == 2000
\* getStartingLives: 3 + extraLives
BaseLives == 3
\* the first level with a moving wall: Math.floor((level - 4) / 2) >= 1
WallLevel == 6
\* Lengths are in thousandths of a world unit, speeds in thousandths of a
\* unit per frame, friction in thousandths.
\* ARENA.WIDTH = 30, ARENA.HEIGHT = 20
ARENA_WIDTH == 30000
ARENA_HEIGHT == 20000
\* PLAYER
RADIUS == 800
DASH_DURATION == 300
DASH_COOLDOWN == 1500
HANDBRAKE_DURATION == 600
MAX_SPEED == 250
ACCELERATION == 180
FRICTION == 985
HANDBRAKE_FRICTION == 920
DASH_SPEED_BOOST == 2
\* COLLISION.PUSH_FORCE = 0.5
PUSH_FORCE == 500
\* _updateBoundaries: const bounceFactor = 0.3, in tenths
BounceFactor == 3
\* _checkCrossBoundary: armWidth = 6; _updateBoundaries: cornerRadius 5
ArmWidth == 6000
CornerRadius == 5000

VARIABLES
    \* Game.state
    level, lives, starsCollected, totalStars, isGameOver, isLevelComplete,
    activePowerUpEffects,
    \* Game entities: player (present or null), stars (the collected flag of
    \* each placed star), and how many obstacles, moving walls and enemies
    playerExists, stars, obstacles, movingWalls, enemies,
    \* CollisionSystem
    invincibilityTime, shieldActive, shieldTimeRemaining,
    \* host: pending setTimeout(() => this._levelComplete(), 500) callbacks
    timers,
    \* PowerUpSystem: progress.powerUps, progress.activePowerUps, activeEffects
    powerUps, activePowerUps, activeEffects,
    \* what the last step did (events emitted, calls made), and what has
    \* happened since the level was generated
    ev, hist,
    \* Player: velocity, maxSpeed and the dash and handbrake timers
    player,
    \* InputSystem: prevDashPressed, prevBreakPressed
    inputSystem,
    \* what the last Player.update did
    pev,
    \* SeededRandom: seed and originalSeed, and what the last call returned
    rng, rnd, runs,
    \* a generator obtained from rng.clone(), and what has been called on
    \* the two generators since
    cl, cev,
    \* a call of ARENA.getShapeForLevel or Game.calculateCoinsReward: its
    \* arguments and what it returned
    calc,
    \* a run of _generateStars and _generateObstacles: the entity being
    \* placed, the attempts made for it, and the positions placed so far
    gen,
    \* Game.state.seed, state.level and state.rng as the calls of
    \* generateLevel, restartGame, nextLevel and restartStage leave them
    sess,
    \* PowerUpSystem.progress other than powerUps and activePowerUps (coins,
    \* highScores, totalLevelsCompleted), the objects DEFAULT_PROGRESS holds,
    \* and what the last call on the shop was and returned
    shop,
    \* one star, a player that stands still, and the magnet range in effect
    mag

gameVars == <<level, lives, starsCollected, totalStars, isGameOver,
              isLevelComplete, activePowerUpEffects, playerExists, stars,
              obstacles, movingWalls, enemies, invincibilityTime,
              shieldActive, shieldTimeRemaining, timers, powerUps,
              activePowerUps, activeEffects, ev, hist>>

playerVars == <<player, inputSystem, pev>>

rngVars == <<rng, rnd>>

\* two games run side by side from one seed string
detVars == <<runs>>

\* the state of the components the frame loop does not write
\* a generator and its clone
cloneVars == <<cl, cev>>

calcVars == <<calc>>

genVars == <<gen>>

sessVars == <<sess>>

shopVars == <<shop>>

magVars == <<mag>>

pureVars == <<rngVars, detVars, cloneVars, calcVars, genVars,
             sessVars, shopVars, magVars>>

vars == <<gameVars, playerVars, pureVars>>

(* ------------------------ ARENA and REWARDS --------------------------- *)
\* the shapes array of ARENA.getShapeForLevel
ShapeCycle == <<"rectangle", "oval", "diamond", "hexagon", "circle", "cross",
                "rounded_rect">>

\* the cycle alone, without the octagon of every fifth level
getShapeForLevelCycleOnly(l) == ShapeCycle[((l - 1) % Len(ShapeCycle)) + 1]

\* ARENA.getShapeForLevel(level)
getShapeForLevel(l) ==
    IF l % 5 = 0 THEN "octagon"
    ELSE ShapeCycle[((l - 1) % Len(ShapeCycle)) + 1]

\* REWARDS
BASE_COINS == 10
COINS_PER_LEVEL == 5
TIME_BONUS_MULTIPLIER == 2
LIVES_BONUS == 10
MIN_COINS == 5
TARGET_TIME_BASE == 60
TARGET_TIME_PER_LEVEL == 10

\* the reward without the bonus for remaining lives
calculateCoinsRewardNoLives(l, timeTaken, remaining, coinBonus) ==
    LET baseCoins == BASE_COINS + l * COINS_PER_LEVEL
        targetTime == TARGET_TIME_BASE + l * TARGET_TIME_PER_LEVEL
        timeBonus == Max(0, ((targetTime * 1000 - timeTaken)
                                 * TIME_BONUS_MULTIPLIER) \div 1000)
        totalCoins == baseCoins + timeBonus
        scaled == IF coinBonus # 0
                  THEN (totalCoins * (1000 + coinBonus)) \div 1000
                  ELSE totalCoins
    IN Max(MIN_COINS, scaled)

\* Game.calculateCoinsReward(level, timeTaken): timeTaken in milliseconds,
\* remaining is this.state.lives, coinBonus is
\* this.state.activePowerUpEffects.coinBonus in thousandths (0: none)
calculateCoinsReward(l, timeTaken, remaining, coinBonus) ==
    LET baseCoins == BASE_COINS + l * COINS_PER_LEVEL
        targetTime == TARGET_TIME_BASE + l * TARGET_TIME_PER_LEVEL
        timeBonus == Max(0, ((targetTime * 1000 - timeTaken)
                                 * TIME_BONUS_MULTIPLIER) \div 1000)
        livesBonus == remaining * LIVES_BONUS
        totalCoins == baseCoins + timeBonus + livesBonus
        scaled == IF coinBonus # 0
                  THEN (totalCoins * (1000 + coinBonus)) \div 1000
                  ELSE totalCoins
    IN Max(MIN_COINS, scaled)

\* no call yet, with the arguments of the call to come
NoCalc(l, timeTaken, remaining, coinBonus) ==
    [kind |-> "none", level |-> l, timeTaken |-> timeTaken,
     lives |-> remaining, coinBonus |-> coinBonus, shape |-> "none",
     coins |-> 0, walls |-> 0]

CalcIdle == calc = NoCalc(1, 0, 0, 0)

\* ARENA.getShapeForLevel(calc.level)
CallGetShapeForLevel ==
    /\ calc.kind = "none"
    /\ calc' = [calc EXCEPT !.kind = "shape",
                             !.shape = getShapeForLevel(calc.level)]
    /\ UNCHANGED <<gameVars, playerVars, rngVars, detVars, cloneVars, genVars, sessVars,
                   shopVars, magVars>>

\* this.calculateCoinsReward(level, levelCompletionTime)
CallCalculateCoinsReward ==
    /\ calc.kind = "none"
    /\ calc' = [calc EXCEPT !.kind = "coins",
                             !.coins = calculateCoinsReward(
                                 calc.level, calc.timeTaken, calc.lives,
                                 calc.coinBonus)]
    /\ UNCHANGED <<gameVars, playerVars, rngVars, detVars, cloneVars, genVars, sessVars,
                   shopVars, magVars>>

(* --------------------------- power-ups -------------------------------- *)
PowerUpIds == {"shield", "extraLife", "speedBoost", "magnet"}

\* POWER_UPS[id].effect(level); a missing key is 0 (undefined is falsy).
\* shieldDuration in ms, speed and magnetRange in thousandths.
NoEffects == [shieldDuration |-> 0, extraLives |-> 0, speed |-> 0,
              magnetRange |-> 0]

getPowerUpEffect(id, lvl, acc) ==
    IF lvl <= 0 THEN acc
    ELSE CASE id = "shield"     -> [acc EXCEPT !.shieldDuration = lvl * 2000]
           [] id = "extraLife"  -> [acc EXCEPT !.extraLives = lvl]
           [] id = "speedBoost" -> [acc EXCEPT !.speed = 1000 + lvl * 150]
           [] id = "magnet"     -> [acc EXCEPT !.magnetRange = 1500 + lvl * 800]

\* PowerUpSystem.applyPowerUpEffects: Object.assign over the equipped list
RECURSIVE applyPowerUpEffects(_, _, _)
applyPowerUpEffects(levels, equipped, acc) ==
    IF equipped = <<>> THEN acc
    ELSE applyPowerUpEffects(levels, Tail(equipped),
             getPowerUpEffect(Head(equipped), levels[Head(equipped)], acc))

getStartingLives(effects) == BaseLives + effects.extraLives

(* ------------------------ level generation ---------------------------- *)
\* _generateStars: starCount = 5 + Math.floor(level * 1.5)
StarCount(l) == 5 + ((l * 3) \div 2)
\* _generateObstacles: obstacleCount = 2 + Math.floor(level * 1.8)
ObstacleCount(l) == 2 + ((l * 9) \div 5)
\* _generateEnemies: 1 + (level >= 10 ? 3 : level >= 7 ? 2 : level >= 4 ? 1 : 0)
EnemyCount(l) == 1 + (IF l >= 10 THEN 3 ELSE IF l >= 7 THEN 2 ELSE IF l >= 4 THEN 1 ELSE 0)
\* generateLevel / _generateMovingWalls: none below level 5, else
\* Math.min(2, Math.floor((level - 4) / 2))
MovingWallCount(l) == IF l >= 5 THEN Min(2, (l - 4) \div 2) ELSE 0

\* generateLevel(calc.level): if (level >= 5) this._generateMovingWalls(level),
\* which pushes movingWallCount walls
CallGenerateMovingWalls ==
    /\ calc.kind = "none"
    /\ calc' = [calc EXCEPT !.kind = "walls",
                             !.walls = MovingWallCount(calc.level)]
    /\ UNCHANGED <<gameVars, playerVars, rngVars, detVars, cloneVars, genVars, sessVars,
                   shopVars, magVars>>

\* the attempt cap of the placement loops: while (!valid && attempts < 100)
MaxAttempts == 100

\* the positions a placement loop draws, in thousandths of a unit: the spawn
\* point, two spots 2 units apart that are nearer than 6 units to the spawn
\* point or to each other, and two spots far from everything
Candidates ==
    {<<0, 0>>, <<5000, 0>>, <<7000, 0>>, <<-10000, 5000>>, <<10000, -5000>>}

\* Math.sqrt(dx * dx + dz * dz) < d, d in thousandths
Nearer(a, b, d) ==
    (a[1] - b[1]) * (a[1] - b[1]) + (a[2] - b[2]) * (a[2] - b[2]) < d * d

\* _generateStars: the candidate is valid when it is 4 units or more from
\* the spawn point and 2.5 units or more from every star placed
starValid(c, starPositions) ==
    /\ ~Nearer(c, <<0, 0>>, 4000)
    /\ \A k \in 1..Len(starPositions) : ~Nearer(starPositions[k], c, 2500)

\* _generateObstacles: 6 units from the spawn point, 3 from every star,
\* 2.5 from every obstacle placed
obstacleValid(c, starPositions, obstaclePositions) ==
    /\ ~Nearer(c, <<0, 0>>, 6000)
    /\ \A k \in 1..Len(starPositions) : ~Nearer(starPositions[k], c, 3000)
    /\ \A k \in 1..Len(obstaclePositions) :
           ~Nearer(obstaclePositions[k], c, 2500)

\* the do-while loop is left: } while (!valid && attempts < 100)
loopEndsNoCap(valid, attempts) == valid
loopEnds(valid, attempts) == ~(~valid /\ attempts < MaxAttempts)

\* generateLevel(l) has reached the loop of _generateStars:
\* this.state.totalStars = starCount
NewGen(l) ==
    [phase |-> "stars", level |-> l, i |-> 0, attempts |-> 0,
     stars |-> <<>>, obstacles |-> <<>>, last |-> "none",
     totalStars |-> StarCount(l)]

GenIdle == gen = [NewGen(1) EXCEPT !.phase = "idle"]

\* one pass of the do-while loop of _generateStars for star i, with what
\* follows the loop when it is left: the push if (valid), i++, and the
\* start of _generateObstacles after the last star
StarAttempt ==
    /\ gen.phase = "stars"
    /\ \E c \in {q \in Candidates : q[1] \in -13000..13000 /\ q[2] \in -8000..8000} :
         LET valid == starValid(c, gen.stars)
             attempts == gen.attempts + 1
         IN gen' =
              IF ~loopEnds(valid, attempts)
              THEN [gen EXCEPT !.attempts = attempts, !.last = "retry"]
              ELSE [gen EXCEPT
                      !.stars = IF valid THEN Append(@, c) ELSE @,
                      !.last = IF valid THEN "placed" ELSE "omitted",
                      !.attempts = 0,
                      !.i = IF gen.i + 1 < StarCount(gen.level)
                            THEN gen.i + 1 ELSE 0,
                      !.phase = IF gen.i + 1 < StarCount(gen.level)
                                THEN "stars" ELSE "obstacles"]
    /\ UNCHANGED <<gameVars, playerVars, rngVars, detVars, cloneVars, calcVars,
                   sessVars, shopVars, magVars>>

\* one pass of the do-while loop of _generateObstacles for obstacle i, with
\* the push if (valid) and i++; after the last obstacle generateLevel runs
\* on through code without loops of this kind
ObstacleAttempt ==
    /\ gen.phase = "obstacles"
    /\ \E c \in {q \in Candidates : q[1] \in -12000..12000 /\ q[2] \in -7000..7000} :
         LET valid == obstacleValid(c, gen.stars, gen.obstacles)
             attempts == gen.attempts + 1
         IN gen' =
              IF ~loopEnds(valid, attempts)
              THEN [gen EXCEPT !.attempts = attempts, !.last = "retry"]
              ELSE [gen EXCEPT
                      !.obstacles = IF valid THEN Append(@, c) ELSE @,
                      !.last = IF valid THEN "placed" ELSE "omitted",
                      !.attempts = 0,
                      !.i = IF gen.i + 1 < ObstacleCount(gen.level)
                            THEN gen.i + 1 ELSE 0,
                      !.phase = IF gen.i + 1 < ObstacleCount(gen.level)
                                THEN "obstacles" ELSE "done"]
    /\ UNCHANGED <<gameVars, playerVars, rngVars, detVars, cloneVars, calcVars,
                   sessVars, shopVars, magVars>>

\* what a step did: gateClosed is the collision gate right after
\* collisionSystem.update, contact whether an entity touches the
\* player (several: when entities of two or three kinds do and a life is
\* lost, the first of the kinds in the order of the loops and the kind in
\* whose loop the life was lost), sincePrev the simulated time since the previous life loss of the
\* level (-1: none), the rest count calls and events of the step
NoEvents == [kind |-> "none", gateClosed |-> FALSE, contact |-> FALSE,
             sincePrev |-> -1, damages |-> 0, pushes |-> 0,
             shieldStarts |-> 0, collected |-> 0, scheduled |-> 0,
             gameOvers |-> 0, levelCompletes |-> 0,
             several |-> <<"none", "none">>]

\* history since generateLevel: hits counts the lives lost, sinceDamage the
\* simulated time since the last of them (-1: none yet), startLives the
\* lives the level started with
NoHist == [hits |-> 0, sinceDamage |-> -1, startLives |-> BaseLives,
           levelCompletes |-> 0, gameOvers |-> 0]


(* ------------------------- CollisionSystem ---------------------------- *)
\* The handlers below work on the frame's running state g: the fields of
\* Game.state and CollisionSystem a frame writes, and the events it emits.

\* CollisionSystem.update(deltaTime)
update(g, deltaTime) ==
    LET inv == Max(0, g.invincibilityTime - deltaTime)
        sh  == Max(0, g.shieldTimeRemaining - deltaTime)
    IN [g EXCEPT !.invincibilityTime = inv,
                 !.shieldTimeRemaining = sh,
                 !.shieldActive = (sh > 0)]

\* CollisionSystem.isInvincible
isInvincible(g) == g.invincibilityTime > 0 \/ g.shieldActive

\* CollisionSystem.activateShield(duration)
activateShield(g, duration) ==
    [g EXCEPT !.shieldTimeRemaining = duration,
              !.shieldActive = TRUE,
              !.shieldStarts = @ + 1]

\* a game over that leaves state.isGameOver alone
gameOverNoFlag(g) == [g EXCEPT !.gameOvers = @ + 1]

\* Game._gameOver
gameOver(g) == [g EXCEPT !.isGameOver = TRUE, !.gameOvers = @ + 1]

\* a shield check that reads wasShielded the wrong way round
checkShieldActivationInverted(g, wasShielded, effects) ==
    IF wasShielded /\ effects.shieldDuration # 0
    THEN activateShield(g, effects.shieldDuration)
    ELSE g

\* Game._animate: const checkShieldActivation = (wasShielded) => ...
checkShieldActivation(g, wasShielded, effects) ==
    IF ~wasShielded /\ effects.shieldDuration # 0
    THEN activateShield(g, effects.shieldDuration)
    ELSE g

\* a damage callback that starts the shield in place of taking a life
handleDamageShieldSaves(g, wasShielded, effects) ==
    LET g1 == checkShieldActivation(g, wasShielded, effects)
        g2 == IF g1.shieldStarts > g.shieldStarts THEN g1
              ELSE [g1 EXCEPT !.lives = @ - 1, !.damages = @ + 1]
    IN IF g2.lives <= 0 THEN gameOver(g2) ELSE g2

\* Game._animate: const handleDamage = (wasShielded) => ...
handleDamage(g, wasShielded, effects) ==
    LET g1 == checkShieldActivation(g, wasShielded, effects)
        g2 == [g1 EXCEPT !.lives = @ - 1, !.damages = @ + 1]
    IN IF g2.lives <= 0 THEN gameOver(g2) ELSE g2

\* a collision handler whose gate forgets the shield
GatedNoShield(g) == g.invincibilityTime > 0

\* The gate of both collision handlers:
\* if (this.invincibilityTime > 0 || this.shieldActive) return false;
Gated(g) == g.invincibilityTime > 0 \/ g.shieldActive

\* an obstacle handler that forgets to start the invincibility timer
handlePlayerObstacleCollisionNoTimer(g, contact, effects) ==
    IF Gated(g) THEN g
    ELSE IF contact
    THEN LET g1 == IF g.shieldTimeRemaining <= 0 /\ ~g.shieldActive
                   THEN handleDamage(g, FALSE, effects)
                   ELSE handleDamage(g, TRUE, effects)
         IN [g1 EXCEPT !.pushes = @ + 1]
    ELSE g

\* CollisionSystem.handlePlayerObstacleCollision(player, obstacle, onDamage);
\* contact is obstacle.checkCollision(player.position, player.radius)
handlePlayerObstacleCollision(g, contact, effects) ==
    IF Gated(g) THEN g
    ELSE IF contact
    THEN LET g1 == IF g.shieldTimeRemaining <= 0 /\ ~g.shieldActive
                   THEN handleDamage(g, FALSE, effects)
                   ELSE handleDamage(g, TRUE, effects)
         IN [g1 EXCEPT !.invincibilityTime = INVINCIBILITY_DURATION,
                       !.pushes = @ + 1]
    ELSE g

\* an enemy handler that forgets to start the invincibility timer
handlePlayerEnemyCollisionNoTimer(g, contact, effects) ==
    IF Gated(g) THEN g
    ELSE IF contact
    THEN LET g1 == IF g.shieldTimeRemaining <= 0 /\ ~g.shieldActive
                   THEN handleDamage(g, FALSE, effects)
                   ELSE handleDamage(g, TRUE, effects)
         IN [g1 EXCEPT !.pushes = @ + 1]
    ELSE g

\* CollisionSystem.handlePlayerEnemyCollision(player, enemy, onDamage);
\* contact is checkCircleCollision(player, enemy); both branches push
handlePlayerEnemyCollision(g, contact, effects) ==
    IF Gated(g) THEN g
    ELSE IF contact
    THEN LET g1 == IF g.shieldTimeRemaining <= 0 /\ ~g.shieldActive
                   THEN handleDamage(g, FALSE, effects)
                   ELSE handleDamage(g, TRUE, effects)
         IN [g1 EXCEPT !.invincibilityTime = INVINCIBILITY_DURATION,
                       !.pushes = @ + 1]
    ELSE g

(* ------------------------------ Star ---------------------------------- *)
\* Star.checkCollection: false for a collected star, else the distance test
\* dist < playerRadius + 0.5 (inRange)
checkCollection(collected, inRange) == IF collected THEN FALSE ELSE inRange

\* a collect that leaves the flag as it was
collectNoFlag(g, i) == g

\* Star.collect
collect(g, i) == [g EXCEPT !.stars[i] = TRUE]

\* Star.isCollected
isCollected(g, i) == g.stars[i]

\* CollisionSystem.handlePlayerStarCollection: collects the star when
\* checkCollection says so, and reports it
handlePlayerStarCollection(g, i, inRange) ==
    IF checkCollection(g.stars[i], inRange) THEN collect(g, i) ELSE g

\* Game._animate, body of this.stars.forEach for star i
StarStep(g, i, inRange) ==
    IF g.playerExists /\ ~isCollected(g, i)
    THEN LET g1 == handlePlayerStarCollection(g, i, inRange)
         IN IF checkCollection(g.stars[i], inRange)
            THEN LET g2 == [g1 EXCEPT !.starsCollected = @ + 1,
                                      !.collected = @ + 1]
                 IN IF g2.starsCollected >= g2.totalStars
                    THEN [g2 EXCEPT !.timers = @ + 1, !.scheduled = @ + 1]
                    ELSE g2
            ELSE g1
    ELSE g

(* -------------------------- SeededRandom ------------------------------ *)
\* JavaScript numbers are IEEE-754 doubles.  A non-negative integer is kept
\* here as its digits in base 2^15, least significant first, so that
\* products beyond 32 bits are exact before they are rounded to the 53
\* significant bits of a double.
LimbBase == 32768

Limbs(n) == <<n % LimbBase, (n \div LimbBase) % LimbBase,
              n \div (LimbBase * LimbBase)>>

Digit(a, i) == IF i <= Len(a) THEN a[i] ELSE 0

RECURSIVE CarryFrom(_, _, _)
CarryFrom(a, i, c) ==
    IF i > Len(a)
    THEN IF c = 0 THEN a ELSE CarryFrom(Append(a, 0), i, c)
    ELSE LET t == a[i] + c
         IN CarryFrom([a EXCEPT ![i] = t % LimbBase], i + 1, t \div LimbBase)

AddL(a, b) ==
    CarryFrom([i \in 1..Max(Len(a), Len(b)) |-> Digit(a, i) + Digit(b, i)], 1, 0)

MulSmall(a, d) == CarryFrom([i \in 1..Len(a) |-> a[i] * d], 1, 0)

RECURSIVE MulFrom(_, _, _)
MulFrom(a, b, i) ==
    IF i > Len(b) THEN <<0>>
    ELSE AddL([j \in 1..(i - 1) |-> 0] \o MulSmall(a, b[i]),
              MulFrom(a, b, i + 1))

MulL(a, b) == MulFrom(a, b, 1)

RECURSIVE BitLenSmall(_)
BitLenSmall(n) == IF n = 0 THEN 0 ELSE 1 + BitLenSmall(n \div 2)

RECURSIVE BitLen(_)
BitLen(a) ==
    IF a = <<>> THEN 0
    ELSE IF a[Len(a)] = 0 THEN BitLen(SubSeq(a, 1, Len(a) - 1))
    ELSE 15 * (Len(a) - 1) + BitLenSmall(a[Len(a)])

\* the double nearest to an integer: 53 significant bits, ties to even
Round53(a) ==
    LET k == BitLen(a) - 53
    IN IF k <= 0 THEN a
       ELSE LET r == a[1] % (2 ^ k)
                odd == (a[1] \div (2 ^ k)) % 2 = 1
                half == 2 ^ (k - 1)
                down == [a EXCEPT ![1] = @ - r]
            IN IF r > half \/ (r = half /\ odd)
               THEN AddL(down, <<2 ^ k>>) ELSE down

\* x & 0x7fffffff of a non-negative integer-valued double
Low31(a) == <<Digit(a, 1), Digit(a, 2), Digit(a, 3) % 2>>

\* ToInt32 of an integer, as the unsigned 32 bits
Low32(a) == <<Digit(a, 1), Digit(a, 2), Digit(a, 3) % 4>>

LessL(a, b) ==
    \/ a[3] < b[3]
    \/ a[3] = b[3] /\ a[2] < b[2]
    \/ a[3] = b[3] /\ a[2] = b[2] /\ a[1] < b[1]

\* SeededRandom.hashString(str), str as its char codes: the loop keeps hash
\* as an int32 (here: its 32 bits); ((hash << 5) - hash) + char, then
\* hash & hash, is 31 * hash + char reduced to 32 bits
RECURSIVE HashLoop(_, _, _)
HashLoop(str, i, hash) ==
    IF i > Len(str) THEN hash
    ELSE HashLoop(str, i + 1,
                  CHOOSE h \in {Low32(AddL(MulSmall(x, 31), <<str[i]>>)) :
                                   x \in {hash}} : TRUE)

\* Math.abs(hash) || 1: a hash with bit 31 set is negative, 2^32 - hash is
\* its absolute value
hashString(str) ==
    LET hash == CHOOSE h \in {HashLoop(s, 1, <<0, 0, 0>>) : s \in {str}} : TRUE
        abs == IF hash[3] >= 2
               THEN AddL(<<LimbBase - 1 - hash[1], LimbBase - 1 - hash[2],
                           3 - hash[3]>>, <<1>>)
               ELSE hash
    IN IF abs = <<0, 0, 0>> THEN <<1, 0, 0>> ELSE abs

\* new SeededRandom(seed)
SeededRandom(str) ==
    [seed |-> hashString(str), originalSeed |-> hashString(str)]

\* SeededRandom.next(), the new seed:
\* (this.seed * 1103515245 + 12345) & 0x7fffffff, the product and the sum
\* each rounded to a double
\* (the set constructor fixes the value of this.seed before the limbs of
\* the product are computed)
nextSeed(seed) ==
    CHOOSE t \in {Low31(Round53(AddL(Round53(MulL(x, Limbs(1103515245))),
                                    Limbs(12345)))) : x \in {seed}} : TRUE

\* SeededRandom.next(), the divisor of the value returned: 0x7fffffff
nextDivisor == <<32767, 32767, 1>>

\* what the last call did: prev is the seed before it, num / den the value
\* returned, draws the number of calls so far
NoDraw == [kind |-> "none", prev |-> <<0, 0, 0>>, num |-> <<0, 0, 0>>,
           den |-> <<1, 0, 0>>, draws |-> 0]

\* the generator of a Game before its first level: none
RngIdle ==
    /\ rng = [seed |-> <<1, 0, 0>>, originalSeed |-> <<1, 0, 0>>]
    /\ rnd = NoDraw

\* rng.next()
RngNext ==
    /\ rnd.draws < MaxDraws
    /\ rng' = [rng EXCEPT !.seed = nextSeed(rng.seed)]
    /\ rnd' = [kind |-> "next", prev |-> rng.seed,
               num |-> nextSeed(rng.seed), den |-> nextDivisor,
               draws |-> rnd.draws + 1]
    /\ UNCHANGED <<gameVars, playerVars, detVars, cloneVars, calcVars, genVars, sessVars,
                   shopVars, magVars>>

\* Number.prototype.toString of a non-negative integer: its decimal digits
\* as char codes; DivTen is <<quotient, remainder>> of a division by ten
DivTen(n) ==
    LET q3 == Digit(n, 3) \div 10
        r3 == Digit(n, 3) % 10
        q2 == (r3 * LimbBase + Digit(n, 2)) \div 10
        r2 == (r3 * LimbBase + Digit(n, 2)) % 10
        q1 == (r2 * LimbBase + Digit(n, 1)) \div 10
        r1 == (r2 * LimbBase + Digit(n, 1)) % 10
    IN <<(<<q1, q2, q3>>), r1>>

RECURSIVE toString(_)
toString(n) ==
    LET d == CHOOSE t \in {DivTen(x) : x \in {n}} : TRUE
    IN IF d[1] = <<0, 0, 0>> THEN <<48 + d[2]>>
       ELSE Append(toString(d[1]), 48 + d[2])

\* rng.reset()
reset(g) == [g EXCEPT !.seed = g.originalSeed]

\* the clone without its second statement, rng.seed = this.seed
cloneFresh(g) == SeededRandom(toString(g.originalSeed))

\* rng.clone(): new SeededRandom(this.originalSeed), whose constructor
\* hashes originalSeed.toString(), then rng.seed = this.seed
clone(g) == [SeededRandom(toString(g.originalSeed)) EXCEPT !.seed = g.seed]

\* what has happened to a generator constructed from the seed string str and
\* to its clone: kind is the last call, gSince and cSince the draws of the
\* two since clone(), parted whether one of them was reset since clone();
\* gReset / cReset whether the generator was reset, and gRef / cRef the
\* seed a new SeededRandom(str) holds after as many draws as the generator
\* has made since its last reset
NoClone == [seed |-> <<1, 0, 0>>, originalSeed |-> <<1, 0, 0>>]

NoCloneEvents(str) ==
    [kind |-> "none", str |-> str, cloned |-> FALSE, gSince |-> 0,
     cSince |-> 0, parted |-> FALSE, gReset |-> FALSE, cReset |-> FALSE,
     gRef |-> <<0, 0, 0>>, cRef |-> <<0, 0, 0>>, steps |-> 0]

CloneIdle == cl = NoClone /\ cev = NoCloneEvents(<<>>)

\* const c = rng.clone()
CallClone ==
    /\ ~cev.cloned /\ cev.steps < MaxCloneSteps
    /\ cl' = clone(rng)
    /\ cev' = [cev EXCEPT !.kind = "clone", !.cloned = TRUE,
                           !.steps = @ + 1]
    /\ UNCHANGED <<gameVars, playerVars, rngVars, detVars, calcVars, genVars, sessVars,
                   shopVars, magVars>>

\* rng.next() on the generator
DrawOriginal ==
    /\ cev.steps < MaxCloneSteps
    /\ rng' = [rng EXCEPT !.seed = nextSeed(rng.seed)]
    /\ cev' = [cev EXCEPT !.kind = "next", !.steps = @ + 1,
                           !.gSince = IF cev.cloned THEN @ + 1 ELSE @,
                           !.gRef = IF cev.gReset THEN nextSeed(@) ELSE @]
    /\ UNCHANGED <<gameVars, playerVars, rnd, cl, detVars, calcVars, genVars, sessVars,
                   shopVars, magVars>>

\* c.next() on the clone
DrawClone ==
    /\ cev.cloned /\ cev.steps < MaxCloneSteps
    /\ cl' = [cl EXCEPT !.seed = nextSeed(cl.seed)]
    /\ cev' = [cev EXCEPT !.kind = "cnext", !.steps = @ + 1,
                           !.cSince = @ + 1,
                           !.cRef = IF cev.cReset THEN nextSeed(@) ELSE @]
    /\ UNCHANGED <<gameVars, playerVars, rngVars, detVars, calcVars, genVars, sessVars,
                   shopVars, magVars>>

\* rng.reset() on the generator
ResetOriginal ==
    /\ cev.steps < MaxCloneSteps
    /\ rng' = reset(rng)
    /\ cev' = [cev EXCEPT !.kind = "reset", !.steps = @ + 1,
                           !.parted = cev.cloned, !.gReset = TRUE,
                           !.gRef = hashString(cev.str)]
    /\ UNCHANGED <<gameVars, playerVars, rnd, cl, detVars, calcVars, genVars, sessVars,
                   shopVars, magVars>>

\* c.reset() on the clone
ResetClone ==
    /\ cev.cloned /\ cev.steps < MaxCloneSteps
    /\ cl' = reset(cl)
    /\ cev' = [cev EXCEPT !.kind = "creset", !.steps = @ + 1,
                           !.parted = TRUE, !.cReset = TRUE,
                           !.cRef = hashString(cev.str)]
    /\ UNCHANGED <<gameVars, playerVars, rngVars, detVars, calcVars, genVars, sessVars,
                   shopVars, magVars>>

(* ----------------------------- Player --------------------------------- *)
\* JavaScript's number division, rounded toward zero
TDiv(a, b) == IF a >= 0 THEN a \div b ELSE -((-a) \div b)

\* Math.sqrt, rounded up to the next integer
RECURSIVE SqrtUp(_, _, _)
SqrtUp(n, lo, hi) ==
    IF lo >= hi THEN lo
    ELSE LET mid == (lo + hi) \div 2
         IN IF mid * mid >= n THEN SqrtUp(n, lo, mid)
            ELSE SqrtUp(n, mid + 1, hi)

Abs(x) == IF x >= 0 THEN x ELSE -x
Sign(x) == IF x > 0 THEN 1 ELSE IF x < 0 THEN -1 ELSE 0

\* ARENA.SHAPES
Shapes == {"rectangle", "circle", "oval", "diamond", "octagon", "cross",
           "rounded_rect", "hexagon"}

\* new Player(scene), then generateLevel's
\* if (activePowerUpEffects.speed) player.setMaxSpeed(0.25 * speed);
\* shape is arenaConfig.shape, which only setArenaConfig changes
NewPlayer(effects) ==
    [position |-> <<0, 0>>, velocity |-> <<0, 0>>, shape |-> "rectangle",
     maxSpeed |-> IF effects.speed # 0
                  THEN TDiv(MAX_SPEED * effects.speed, 1000) ELSE MAX_SPEED,
     dashActive |-> FALSE, dashTimeRemaining |-> 0,
     dashCooldownRemaining |-> 0,
     handbrakeActive |-> FALSE, handbrakeTimeRemaining |-> 0,
     handbrakeCooldownRemaining |-> 0]

\* what a Player.update did: the triggers stored by the previous frame, the
\* activations, the velocity right after the update, the frames so far
NoPlayerEvents == [kind |-> "none", prevDash |-> FALSE, prevBreak |-> FALSE,
                   dashPressed |-> FALSE, breakPressed |-> FALSE,
                   dashStarted |-> FALSE, breakStarted |-> FALSE,
                   updated |-> <<0, 0>>, frames |-> 0]

\* Player._updateCooldowns
updateCooldowns(p, deltaTime) ==
    LET dt == Max(0, p.dashTimeRemaining - deltaTime)
        ht == Max(0, p.handbrakeTimeRemaining - deltaTime)
    IN [p EXCEPT !.dashTimeRemaining = dt,
                 !.dashActive = (dt > 0),
                 !.dashCooldownRemaining = Max(0, @ - deltaTime),
                 !.handbrakeTimeRemaining = ht,
                 !.handbrakeActive = (ht > 0),
                 !.handbrakeCooldownRemaining = Max(0, @ - deltaTime)]

\* Player._updateDash(deltaTime, dashPressed, prevDashPressed = false)
updateDash(p, dashPressed, prevDashPressed) ==
    IF dashPressed /\ ~prevDashPressed /\ ~p.dashActive
       /\ p.dashCooldownRemaining <= 0
    THEN [p EXCEPT !.dashActive = TRUE,
                   !.dashTimeRemaining = DASH_DURATION,
                   !.dashCooldownRemaining = DASH_COOLDOWN]
    ELSE p

updateBreakDashCooldown(p, breakPressed, prevBreakPressed) ==
    IF breakPressed /\ ~prevBreakPressed /\ ~p.handbrakeActive
       /\ p.handbrakeCooldownRemaining <= 0
    THEN [p EXCEPT !.handbrakeActive = TRUE,
                   !.handbrakeTimeRemaining = HANDBRAKE_DURATION,
                   !.dashCooldownRemaining = DASH_COOLDOWN]
    ELSE p

\* Player._updateBreak(deltaTime, breakPressed, prevBreakPressed = false);
\* the cooldown it starts is this.dashCooldown
updateBreak(p, breakPressed, prevBreakPressed) ==
    IF breakPressed /\ ~prevBreakPressed /\ ~p.handbrakeActive
       /\ p.handbrakeCooldownRemaining <= 0
    THEN [p EXCEPT !.handbrakeActive = TRUE,
                   !.handbrakeTimeRemaining = HANDBRAKE_DURATION,
                   !.handbrakeCooldownRemaining = DASH_COOLDOWN]
    ELSE p

\* effectiveMaxSpeed of _updateMovement:
\* this.maxSpeed * (powerUpEffects.speed || 1), doubled while dashing
effectiveMaxSpeed(p, effects) ==
    TDiv(p.maxSpeed * (IF effects.speed # 0 THEN effects.speed ELSE 1000), 1000)
        * (IF p.dashActive THEN DASH_SPEED_BOOST ELSE 1)

\* Player._updateMovement: input is <<x, y>> with components in -1..1; a
\* diagonal is scaled by 0.707
updateMovement(p, input, effects) ==
    LET diag == input[1] # 0 /\ input[2] # 0
        accel == TDiv(ACCELERATION, 10)
        ax == IF diag THEN TDiv(input[1] * 707 * accel, 1000) ELSE input[1] * accel
        az == IF diag THEN TDiv(input[2] * 707 * accel, 1000) ELSE input[2] * accel
        friction == IF p.handbrakeActive THEN HANDBRAKE_FRICTION ELSE FRICTION
        vx == TDiv((p.velocity[1] + ax) * friction, 1000)
        vz == TDiv((p.velocity[2] + az) * friction, 1000)
        eff == effectiveMaxSpeed(p, effects)
        speed == SqrtUp(vx * vx + vz * vz, 0, 32768)
        v == IF vx * vx + vz * vz > eff * eff
             THEN <<TDiv(vx * eff, speed), TDiv(vz * eff, speed)>>
             ELSE <<vx, vz>>
    IN [p EXCEPT !.velocity = v,
                 !.position = <<@[1] + v[1], @[2] + v[2]>>]

\* velocity.x *= -bounceFactor
Bounce(c) == TDiv(-c * BounceFactor, 10)

\* velocity *= (1 - bounceFactor)
Damp(v) == <<TDiv(v[1] * (10 - BounceFactor), 10),
             TDiv(v[2] * (10 - BounceFactor), 10)>>

\* velocity -= 2 * dot * normal, the normal in thousandths
Reflect(v, n, dot) == <<v[1] - TDiv(2 * dot * n[1], 1000),
                        v[2] - TDiv(2 * dot * n[2], 1000)>>

\* velocity . normal, the normal in thousandths
Dot(v, n) == TDiv(v[1] * n[1] + v[2] * n[2], 1000)

\* THREE.Vector3.normalize over x and z, the result in thousandths
Normalize(a, b) ==
    LET len == SqrtUp(a * a + b * b, 0, 46340)
    IN IF len = 0 THEN <<0, 0>>
       ELSE <<TDiv(a * 1000, len), TDiv(b * 1000, len)>>

\* the four clamps shared by the rectangular checks: each axis is held in
\* -half..half and its velocity component bounced
ClampBox(p, halfX, halfZ) ==
    LET x == p.position[1]
        z == p.position[2]
    IN [p EXCEPT
          !.position = <<IF x < -halfX THEN -halfX
                         ELSE IF x > halfX THEN halfX ELSE x,
                         IF z < -halfZ THEN -halfZ
                         ELSE IF z > halfZ THEN halfZ ELSE z>>,
          !.velocity = <<IF x < -halfX \/ x > halfX THEN Bounce(@[1]) ELSE @[1],
                         IF z < -halfZ \/ z > halfZ THEN Bounce(@[2]) ELSE @[2]>>]

\* Player._checkRectangularBoundary
checkRectangularBoundary(p, width, height) ==
    ClampBox(p, width \div 2 - RADIUS, height \div 2 - RADIUS)

\* Player._checkCircularBoundary: cos and sin of atan2(nz, nx) are nx / d
\* and nz / d
checkCircularBoundary(p, width, height) ==
    LET radiusX == width \div 2 - RADIUS
        radiusZ == height \div 2 - RADIUS
        normalizedX == TDiv(p.position[1] * 1000, radiusX)
        normalizedZ == TDiv(p.position[2] * 1000, radiusZ)
        distanceSquared == normalizedX * normalizedX + normalizedZ * normalizedZ
        d == SqrtUp(distanceSquared, 0, 46340)
        closestX == TDiv(normalizedX * radiusX, d)
        closestZ == TDiv(normalizedZ * radiusZ, d)
        normal == Normalize(-TDiv(TDiv(closestX * 1000, radiusX) * 100000, radiusX),
                            -TDiv(TDiv(closestZ * 1000, radiusZ) * 100000, radiusZ))
        dot == Dot(p.velocity, normal)
    IN IF distanceSquared > 1000000
       THEN [p EXCEPT !.position = <<closestX, closestZ>>,
                      !.velocity = Damp(Reflect(@, normal, dot))]
       ELSE p

\* Player._checkDiamondBoundary
checkDiamondBoundary(p, width, height) ==
    LET halfWidth == width \div 2
        halfHeight == height \div 2
        x == p.position[1]
        z == p.position[2]
        normalizedDist == TDiv(Abs(x) * 1000, halfWidth)
                              + TDiv(Abs(z) * 1000, halfHeight)
        t == Min(1000, normalizedDist)
        clampedX == TDiv(x * 1000, t)
        clampedZ == TDiv(z * 1000, t)
        normal == Normalize(Sign(x) * halfHeight, Sign(z) * halfWidth)
        dot == Dot(p.velocity, normal)
    IN IF normalizedDist > 1000 - TDiv(RADIUS * 1000, Min(halfWidth, halfHeight))
       THEN [p EXCEPT
               !.position = <<clampedX - TDiv(normal[1] * RADIUS, 1000),
                              clampedZ - TDiv(normal[2] * RADIUS, 1000)>>,
               !.velocity = IF dot < 0 THEN Damp(Reflect(@, normal, dot))
                            ELSE @]
       ELSE p

\* Math.cos and Math.sin of the vertex angles of the hexagon and the
\* octagon, the angle in tenths of a degree, the value in thousandths
Cos1000(a) ==
    CASE a % 3600 \in {300, 3300} -> 866
      [] a % 3600 \in {900, 2700} -> 0
      [] a % 3600 \in {1500, 2100} -> -866
      [] a % 3600 \in {225, 3375} -> 924
      [] a % 3600 \in {675, 2925} -> 383
      [] a % 3600 \in {1125, 2475} -> -383
      [] a % 3600 \in {1575, 2025} -> -924

Sin1000(a) ==
    CASE a % 3600 \in {300, 1500} -> 500
      [] a % 3600 \in {900} -> 1000
      [] a % 3600 \in {2100, 3300} -> -500
      [] a % 3600 \in {2700} -> -1000
      [] a % 3600 \in {225, 1575} -> 383
      [] a % 3600 \in {675, 1125} -> 924
      [] a % 3600 \in {2025, 3375} -> -383
      [] a % 3600 \in {2475, 2925} -> -924

\* vertex i of the polygon: angle i * 2 PI / sides - PI / sides
Vertex(sides, radius, i) ==
    LET angle == (i * 3600) \div sides - 1800 \div sides
    IN <<TDiv(Cos1000(angle) * radius, 1000),
         TDiv(Sin1000(angle) * radius, 1000)>>

\* the unit normal (-edgeZ, edgeX) / normalLen of edge i, in thousandths
EdgeNormal(sides, radius, i) ==
    LET v1 == Vertex(sides, radius, i)
        v2 == Vertex(sides, radius, i + 1)
    IN Normalize(-(v2[2] - v1[2]), v2[1] - v1[1])

\* const distance of _checkPolygonBoundary: the position relative to
\* vertex i, along the normal of edge i
EdgeDistance(sides, radius, i, position) ==
    LET v1 == Vertex(sides, radius, i)
        n == EdgeNormal(sides, radius, i)
    IN TDiv((position[1] - v1[1]) * n[1] + (position[2] - v1[2]) * n[2], 1000)

\* Player._checkPolygonBoundary, the loop from edge i on
RECURSIVE PolygonLoop(_, _, _, _)
PolygonLoop(p, sides, radius, i) ==
    IF i >= sides THEN p
    ELSE LET n == EdgeNormal(sides, radius, i)
             distance == EdgeDistance(sides, radius, i, p.position)
             pushDistance == distance + RADIUS
             dot == Dot(p.velocity, n)
         IN IF distance > -RADIUS
            THEN [p EXCEPT
                    !.position = <<@[1] - TDiv(n[1] * pushDistance, 1000),
                                   @[2] - TDiv(n[2] * pushDistance, 1000)>>,
                    !.velocity = IF dot > 0 THEN Damp(Reflect(@, n, dot))
                                 ELSE @]
            ELSE PolygonLoop(p, sides, radius, i + 1)

checkPolygonBoundary(p, sides, radius) == PolygonLoop(p, sides, radius, 0)

\* Player._checkCrossBoundary
checkCrossBoundary(p, width, height) ==
    LET armLength == Min(width, height) \div 2
        x == p.position[1]
        z == p.position[2]
        inHorizontalArm == 2 * Abs(z) < ArmWidth
        inVerticalArm == 2 * Abs(x) < ArmWidth
        distToHorizontal == 2 * Abs(z) - ArmWidth
        distToVertical == 2 * Abs(x) - ArmWidth
        halfWidth == IF inVerticalArm THEN ArmWidth \div 2 ELSE armLength
        halfHeight == IF inHorizontalArm THEN ArmWidth \div 2 ELSE armLength
    IN IF ~inHorizontalArm /\ ~inVerticalArm
          /\ 2 * Abs(x) > ArmWidth /\ 2 * Abs(z) > ArmWidth
       THEN IF distToHorizontal < distToVertical
            THEN [p EXCEPT
                    !.position = <<x, Sign(z) * (ArmWidth \div 2 - RADIUS)>>,
                    !.velocity = <<@[1], Bounce(@[2])>>]
            ELSE [p EXCEPT
                    !.position = <<Sign(x) * (ArmWidth \div 2 - RADIUS), z>>,
                    !.velocity = <<Bounce(@[1]), @[2]>>]
       ELSE ClampBox(p, halfWidth - RADIUS, halfHeight - RADIUS)

\* Player._checkRoundedRectBoundary
checkRoundedRectBoundary(p, width, height, cornerRadius) ==
    LET halfWidth == width \div 2
        halfHeight == height \div 2
        innerWidth == halfWidth - cornerRadius
        innerHeight == halfHeight - cornerRadius
        x == p.position[1]
        z == p.position[2]
        centerX == Sign(x) * innerWidth
        centerZ == Sign(z) * innerHeight
        dx == x - centerX
        dz == z - centerZ
        reach == cornerRadius - RADIUS
        normal == Normalize(-dx, -dz)
        dot == Dot(p.velocity, normal)
    IN IF Abs(x) > innerWidth /\ Abs(z) > innerHeight
       THEN IF dx * dx + dz * dz > reach * reach
            THEN [p EXCEPT
                    !.position = <<centerX - TDiv(normal[1] * reach, 1000),
                                   centerZ - TDiv(normal[2] * reach, 1000)>>,
                    !.velocity = IF dot < 0 THEN Damp(Reflect(@, normal, dot))
                                 ELSE @]
            ELSE p
       ELSE ClampBox(p, halfWidth - RADIUS, halfHeight - RADIUS)

\* Player._updateBoundaries: arenaConfig.width and height are ARENA.WIDTH
\* and ARENA.HEIGHT
updateBoundaries(p) ==
    CASE p.shape \in {"circle", "oval"} ->
             checkCircularBoundary(p, ARENA_WIDTH, ARENA_HEIGHT)
      [] p.shape = "diamond" ->
             checkDiamondBoundary(p, ARENA_WIDTH, ARENA_HEIGHT)
      [] p.shape = "hexagon" ->
             checkPolygonBoundary(p, 6, Min(ARENA_WIDTH, ARENA_HEIGHT) \div 2)
      [] p.shape = "octagon" ->
             checkPolygonBoundary(p, 8, Min(ARENA_WIDTH, ARENA_HEIGHT) \div 2)
      [] p.shape = "cross" ->
             checkCrossBoundary(p, ARENA_WIDTH, ARENA_HEIGHT)
      [] p.shape = "rounded_rect" ->
             checkRoundedRectBoundary(p, ARENA_WIDTH, ARENA_HEIGHT, CornerRadius)
      [] OTHER -> checkRectangularBoundary(p, ARENA_WIDTH, ARENA_HEIGHT)
\* Player.update(deltaTime, input, powerUpEffects): _updateDash and
\* _updateBreak are called without their third argument
playerUpdate(p, deltaTime, input, dashPressed, breakPressed, effects) ==
    LET p1 == updateCooldowns(p, deltaTime)
        p2 == updateDash(p1, dashPressed, FALSE)
        p3 == updateBreak(p2, breakPressed, FALSE)
        p4 == updateMovement(p3, input, effects)
    IN updateBoundaries(p4)

\* Player.push(direction, force)
push(p, direction, force) ==
    [p EXCEPT !.velocity = <<@[1] + direction[1] * force,
                             @[2] + direction[2] * force>>]

\* Game._animate, the player: the stored trigger states are read, the
\* player is updated, the trigger states are stored, and a collision handler
\* of the frame may push the player (pushDir, <<0, 0>> for none)
PlayerFrame(input, dashPressed, breakPressed, pushDir) ==
    /\ playerExists /\ ~isGameOver /\ ~isLevelComplete
    /\ LET prevDashPressed == inputSystem.prevDashPressed
           prevBreakPressed == inputSystem.prevBreakPressed
           p == playerUpdate(player, DeltaTime, input, dashPressed,
                             breakPressed, activePowerUpEffects)
       IN /\ player' = IF pushDir = <<0, 0>> THEN p
                       ELSE push(p, pushDir, PUSH_FORCE)
          /\ inputSystem' = [prevDashPressed |-> dashPressed,
                             prevBreakPressed |-> breakPressed]
          /\ pev' = [kind |-> "update",
                     prevDash |-> prevDashPressed,
                     prevBreak |-> prevBreakPressed,
                     dashPressed |-> dashPressed,
                     breakPressed |-> breakPressed,
                     dashStarted |-> (p.dashTimeRemaining = DASH_DURATION),
                     breakStarted |-> (p.handbrakeTimeRemaining = HANDBRAKE_DURATION),
                     updated |-> p.velocity,
                     frames |-> Min(pev.frames + 1, MaxMoveFrames)]
    /\ UNCHANGED <<gameVars, pureVars>>

(* --------------------------- MovingWall ------------------------------- *)
\* the value next() returns for a seed, seed / 0x7fffffff, in thousandths:
\* the upper sixteen bits of the seed decide it
Unit1000(seed) == ((seed[2] + LimbBase * seed[3]) * 1000) \div (2 * LimbBase)

\* rng.nextFloat(min, max) for the seed the call leaves, in thousandths
nextFloat(seed, min, max) == min + TDiv(Unit1000(seed) * (max - min), 1000)

\* rng.next() < 0.5 for the seed the call leaves: 2 * seed < 2^31 - 1
BelowHalf(seed) == seed[3] = 0

\* Math.sin of an angle of x thousandths of a radian, in thousandths
\* (Bhaskara's approximation on each half period)
MathSin(x) ==
    LET y == x % 6284
        h == IF y <= 3142 THEN y ELSE y - 3142
        b == TDiv(16 * h * (3142 - h),
                  TDiv(5 * 3142 * 3142 - 4 * h * (3142 - h), 1000))
    IN IF y <= 3142 THEN b ELSE -b

\* Game._generateMovingWalls, one wall: the six draws in the order of the
\* code, from the generator state s0; lengths in thousandths of a unit,
\* moveSpeed in thousandths of a radian per second
generateMovingWall(s0, l) ==
    LET s1 == nextSeed(s0)
        s2 == nextSeed(s1)
        s3 == nextSeed(s2)
        s4 == nextSeed(s3)
        s5 == nextSeed(s4)
        s6 == nextSeed(s5)
        isHorizontal == BelowHalf(s1)
        wx == IF isHorizontal
              THEN nextFloat(s5, -(ARENA_WIDTH \div 2) + 5000, ARENA_WIDTH \div 2 - 5000)
              ELSE IF BelowHalf(s5) THEN -(ARENA_WIDTH \div 2) + 3000
                   ELSE ARENA_WIDTH \div 2 - 3000
        wz == IF isHorizontal
              THEN IF BelowHalf(s6) THEN -(ARENA_HEIGHT \div 2) + 3000
                   ELSE ARENA_HEIGHT \div 2 - 3000
              ELSE nextFloat(s6, -(ARENA_HEIGHT \div 2) + 5000, ARENA_HEIGHT \div 2 - 5000)
    IN [seed |-> s6,
        wall |-> [baseX |-> wx, baseZ |-> wz, isHorizontal |-> isHorizontal,
                  length |-> nextFloat(s2, 3000, 6000),
                  moveSpeed |-> nextFloat(s3, 800, 1500 + l * 100),
                  moveRange |-> nextFloat(s4, 3000, 6000),
                  position |-> <<wx, wz>>]]

\* MovingWall.update(time), time in milliseconds:
\* offset = Math.sin(time * moveSpeed) * moveRange
wallUpdate(w, time) ==
    LET offset == TDiv(MathSin(TDiv(time * w.moveSpeed, 1000)) * w.moveRange, 1000)
    IN [w EXCEPT !.position = IF w.isHorizontal
                               THEN <<w.baseX + offset, @[2]>>
                               ELSE <<@[1], w.baseZ + offset>>]

\* a game from generateLevel(WallLevel, str): its generator after the wall's
\* draws, its moving wall, the value of performance.now() and the frames run
NewRun(str, now) ==
    LET g == generateMovingWall(hashString(str), WallLevel)
    IN [str |-> str, seed |-> g.seed, wall |-> g.wall, now |-> now,
        frames |-> 0]

Runs == {1, 2}

\* no game is run side by side with another
DetIdle == runs = [r \in Runs |-> NewRun(<<>>, 0)]

\* Game._animate of game r, the moving wall: the frame is dispatched gap
\* milliseconds after the one before, time = performance.now() / 1000
RunFrame(r, gap) ==
    /\ runs[r].frames < MaxDetFrames
    /\ runs' = [runs EXCEPT ![r] =
                    [@ EXCEPT !.now = @ + gap,
                              !.frames = @ + 1,
                              !.wall = wallUpdate(@, runs[r].now + gap)]]
    /\ UNCHANGED <<gameVars, playerVars, rngVars, cloneVars, calcVars, genVars, sessVars,
                   shopVars, magVars>>

(* --------------------------- the frame -------------------------------- *)
\* this.obstacles.forEach / this.movingWalls.forEach: contacts[i] says
\* whether entity i touches the player
RECURSIVE ObstacleLoop(_, _, _, _)
ObstacleLoop(g, contacts, i, effects) ==
    IF i > Len(contacts) THEN g
    ELSE ObstacleLoop(
             IF g.playerExists
             THEN handlePlayerObstacleCollision(g, contacts[i], effects)
             ELSE g,
             contacts, i + 1, effects)

\* this.enemies.forEach
RECURSIVE EnemyLoop(_, _, _, _)
EnemyLoop(g, contacts, i, effects) ==
    IF i > Len(contacts) THEN g
    ELSE EnemyLoop(
             IF g.playerExists
             THEN handlePlayerEnemyCollision(g, contacts[i], effects)
             ELSE g,
             contacts, i + 1, effects)

\* this.stars.forEach
RECURSIVE StarLoop(_, _, _)
StarLoop(g, inRange, i) ==
    IF i > Len(g.stars) THEN g
    ELSE StarLoop(StarStep(g, i, i \in inRange), inRange, i + 1)

\* Game._animate after the early return: collisionSystem.update, obstacles,
\* moving walls, stars, enemies, in this order
AnimateBody(g, obsC, wallC, inRange, enemyC, effects) ==
    LET g0 == update(g, DeltaTime)
        g1 == ObstacleLoop([g0 EXCEPT !.gateClosed = isInvincible(g0)], obsC, 1, effects)
        g2 == ObstacleLoop([g1 EXCEPT !.byObstacle = g1.damages], wallC, 1,
                           effects)
        g3 == StarLoop([g2 EXCEPT !.byWall = g2.damages - g1.damages],
                       inRange, 1)
    IN EnemyLoop(g3, enemyC, 1, effects)

\* the frame's running state, read from the variables
FrameState ==
    [lives |-> lives, isGameOver |-> isGameOver,
     invincibilityTime |-> invincibilityTime, shieldActive |-> shieldActive,
     shieldTimeRemaining |-> shieldTimeRemaining,
     starsCollected |-> starsCollected, totalStars |-> totalStars,
     stars |-> stars, timers |-> timers, playerExists |-> playerExists,
     gateClosed |-> FALSE, damages |-> 0, pushes |-> 0, shieldStarts |-> 0,
     collected |-> 0, scheduled |-> 0, gameOvers |-> 0,
     byObstacle |-> 0, byWall |-> 0]

\* the first k of n entities touch the player
FirstK(n, k) == [i \in 1..n |-> i <= k]
ContactSeqs(n) == {FirstK(n, k) : k \in 0..Min(n, MaxContacts)}

\* the stars within collection range: up to MaxInRange stars in a row,
\* starting at the last collected star or at the first uncollected one
\* (stars are interchangeable: they are collected in index order)
InRangeSets ==
    {a..b : a \in {Max(1, starsCollected), Min(starsCollected + 1, Len(stars))},
            b \in 0..Min(Len(stars), starsCollected + MaxInRange)}

CountTrue(c) == Cardinality({i \in 1..Len(c) : c[i]})

\* Game._animate: one frame
Animate(obsC, wallC, inRange, enemyC) ==
    IF isGameOver \/ isLevelComplete
    THEN \* only renders
         /\ ev' = [NoEvents EXCEPT !.kind = "skip"]
         /\ UNCHANGED <<level, lives, starsCollected, totalStars, isGameOver,
                        isLevelComplete, activePowerUpEffects, playerExists,
                        stars, obstacles, movingWalls, enemies,
                        invincibilityTime, shieldActive, shieldTimeRemaining,
                        timers, powerUps, activePowerUps, activeEffects, hist>>
         /\ UNCHANGED <<playerVars, pureVars>>
    ELSE LET g == AnimateBody(FrameState, obsC, wallC, inRange, enemyC,
                              activePowerUpEffects)
             since == IF hist.sinceDamage < 0 THEN -1
                      ELSE Min(hist.sinceDamage + DeltaTime, INVINCIBILITY_DURATION)
         IN /\ lives' = g.lives
            /\ isGameOver' = g.isGameOver
            /\ invincibilityTime' = g.invincibilityTime
            /\ shieldActive' = g.shieldActive
            /\ shieldTimeRemaining' = g.shieldTimeRemaining
            /\ starsCollected' = g.starsCollected
            /\ stars' = g.stars
            /\ timers' = g.timers
            /\ ev' = [kind |-> "frame", gateClosed |-> g.gateClosed,
                      contact |-> CountTrue(obsC) + CountTrue(wallC) + CountTrue(enemyC) > 0,
                      sincePrev |-> since,
                      damages |-> g.damages, pushes |-> g.pushes,
                      shieldStarts |-> g.shieldStarts,
                      collected |-> g.collected, scheduled |-> g.scheduled,
                      gameOvers |-> g.gameOvers, levelCompletes |-> 0,
                      several |->
                          IF g.damages > 0 /\
                             Cardinality({c \in {obsC, wallC, enemyC} :
                                             CountTrue(c) > 0}) > 1
                          THEN <<IF CountTrue(obsC) > 0 THEN "obstacle"
                                 ELSE "wall",
                                 IF g.byObstacle > 0 THEN "obstacle"
                                 ELSE IF g.byWall > 0 THEN "wall"
                                 ELSE "enemy">>
                          ELSE <<"none", "none">>]
            /\ hist' = [hist EXCEPT
                          !.hits = @ + g.damages,
                          !.sinceDamage = IF g.damages > 0 THEN 0 ELSE since,
                          !.gameOvers = @ + g.gameOvers]
            /\ UNCHANGED <<level, totalStars, isLevelComplete,
                           activePowerUpEffects, playerExists, obstacles,
                           movingWalls, enemies, powerUps, activePowerUps,
                           activeEffects>>
            /\ UNCHANGED <<playerVars, pureVars>>

Frame ==
    \E obsC \in ContactSeqs(obstacles), wallC \in ContactSeqs(movingWalls),
       enemyC \in ContactSeqs(enemies), inRange \in InRangeSets :
        /\ Animate(obsC, wallC, inRange, enemyC)
        /\ timers' <= MaxTimers

\* a frame in which no star is within range of the player
FrameNoStar ==
    \E obsC \in ContactSeqs(obstacles), wallC \in ContactSeqs(movingWalls),
       enemyC \in ContactSeqs(enemies) :
        Animate(obsC, wallC, {}, enemyC)

\* a frame in which nothing touches the player
FrameNoContact ==
    \E inRange \in InRangeSets :
        /\ Animate(FirstK(obstacles, 0), FirstK(movingWalls, 0), inRange,
                   FirstK(enemies, 0))
        /\ timers' <= MaxTimers

(* ------------------------- level life cycle --------------------------- *)
\* Game.generateLevel(level, seed): _clearLevel, the state it resets, a new
\* player, stars, obstacles, enemies and (level >= 5) moving walls, and
\* collisionSystem.reset().  lives and isGameOver are not touched here.
generateLevel(l, startLives, effects) ==
    /\ level' = l
    /\ starsCollected' = 0
    /\ isLevelComplete' = FALSE
    /\ playerExists' = TRUE
    /\ totalStars' = StarCount(l)
    /\ stars' = [i \in 1..StarCount(l) |-> FALSE]
    /\ obstacles' = ObstacleCount(l)
    /\ enemies' = EnemyCount(l)
    /\ movingWalls' = MovingWallCount(l)
    /\ invincibilityTime' = 0
    /\ shieldActive' = FALSE
    /\ shieldTimeRemaining' = 0
    /\ hist' = [NoHist EXCEPT !.startLives = startLives]
    /\ player' = NewPlayer(effects)
    /\ pev' = NoPlayerEvents
    /\ UNCHANGED <<inputSystem, pureVars>>

\* the application's first call, game.generateLevel(config.level || 1)
StartLevel(lo, hi) ==
    /\ ~playerExists
    /\ \E l \in lo..hi : generateLevel(l, lives, activePowerUpEffects)
    /\ ev' = [NoEvents EXCEPT !.kind = "generateLevel"]
    /\ UNCHANGED <<lives, isGameOver, activePowerUpEffects, timers, powerUps,
                   activePowerUps, activeEffects>>

\* Game.restartGame(seed)
RestartGame ==
    LET effects == applyPowerUpEffects(powerUps, activePowerUps, NoEffects)
    IN /\ activeEffects' = effects
       /\ activePowerUpEffects' = effects
       /\ lives' = getStartingLives(effects)
       /\ isGameOver' = FALSE
       /\ generateLevel(1, getStartingLives(effects), effects)
       /\ ev' = [NoEvents EXCEPT !.kind = "restartGame"]
       /\ UNCHANGED <<timers, powerUps, activePowerUps>>

\* Game.nextLevel(): lives are read before applyPowerUpEffects runs
NextLevel ==
    LET effects == applyPowerUpEffects(powerUps, activePowerUps, NoEffects)
    IN /\ level < MaxLevel
       /\ lives' = getStartingLives(activeEffects)
       /\ activeEffects' = effects
       /\ activePowerUpEffects' = effects
       /\ generateLevel(level + 1, getStartingLives(activeEffects), effects)
       /\ ev' = [NoEvents EXCEPT !.kind = "nextLevel"]
       /\ UNCHANGED <<isGameOver, timers, powerUps, activePowerUps>>

\* Game.restartStage(): lives are read before applyPowerUpEffects runs
RestartStage ==
    LET effects == applyPowerUpEffects(powerUps, activePowerUps, NoEffects)
    IN /\ lives' = getStartingLives(activeEffects)
       /\ isGameOver' = FALSE
       /\ activeEffects' = effects
       /\ activePowerUpEffects' = effects
       /\ generateLevel(level, getStartingLives(activeEffects), effects)
       /\ ev' = [NoEvents EXCEPT !.kind = "restartStage"]
       /\ UNCHANGED <<timers, powerUps, activePowerUps>>

\* the host runs a pending setTimeout callback: Game._levelComplete()
LevelCompleteTimeout ==
    /\ timers > 0
    /\ timers' = timers - 1
    /\ isLevelComplete' = TRUE
    /\ ev' = [NoEvents EXCEPT !.kind = "levelComplete", !.levelCompletes = 1]
    /\ hist' = [hist EXCEPT !.levelCompletes = @ + 1]
    /\ UNCHANGED <<level, lives, starsCollected, totalStars, isGameOver,
                   activePowerUpEffects, playerExists, stars, obstacles,
                   movingWalls, enemies, invincibilityTime, shieldActive,
                   shieldTimeRemaining, powerUps, activePowerUps,
                   activeEffects>>
    /\ UNCHANGED <<playerVars, pureVars>>

\* the session seed.  A seed is a string (a sequence of character codes)
\* or null; null is written as a sequence no string equals.
Null == <<-1>>

\* if (seed): null and the empty string are falsy
Truthy(v) == v # Null /\ v # <<>>

\* Math.random().toString(36).substring(2, 10): up to eight characters
\* after "0."; Math.random() returning 0 prints as "0" and leaves "".
\* Here "", "i" and "4fz".
RandomSeeds == {<<>>, <<105>>, <<52, 102, 122>>}

\* seeds a caller passes: none, "" and "abc"
SeedArgs == {Null, <<>>, <<97, 98, 99>>}

\* new Game(canvas): state.seed = null, state.rng = null
NoSession ==
    [seed |-> Null, level |-> 1, rng |-> SeededRandom(<<>>), made |-> 0,
     op |-> "none", arg |-> Null, calls |-> 0]

SessIdle == sess = NoSession

\* generateLevel(level, seed), the state it was called in being s and
\* Math.random() giving the string random: state.level, state.seed, and
\* state.rng = new SeededRandom(state.seed + '_' + level)
generateLevelSeed(s, l, seed, random) ==
    LET newSeed == IF Truthy(seed) THEN seed
                   ELSE IF ~Truthy(s.seed) THEN random ELSE s.seed
    IN [s EXCEPT !.level = l, !.seed = newSeed,
                 !.rng = SeededRandom(newSeed \o <<95>>
                                      \o toString(<<l, 0, 0>>)),
                 !.made = Min(2, @ + 1), !.calls = @ + 1]

\* game.generateLevel(level, seed) called from outside
GenerateLevelCall ==
    /\ sess.calls < MaxSeedCalls
    /\ \E l \in 1..MaxSeedLevel, seed \in SeedArgs, random \in RandomSeeds :
         sess' = [generateLevelSeed(sess, l, seed, random)
                      EXCEPT !.op = "generateLevel", !.arg = seed]
    /\ UNCHANGED <<gameVars, playerVars, rngVars, detVars, cloneVars, calcVars,
                   genVars, shopVars, magVars>>

\* game.restartGame(seed): state.level = 1, state.seed = seed,
\* generateLevel(1, seed)
RestartGameCall ==
    /\ sess.calls < MaxSeedCalls
    /\ \E seed \in SeedArgs, random \in RandomSeeds :
         sess' = [generateLevelSeed([sess EXCEPT !.level = 1, !.seed = seed],
                                    1, seed, random)
                      EXCEPT !.op = "restartGame", !.arg = seed]
    /\ UNCHANGED <<gameVars, playerVars, rngVars, detVars, cloneVars, calcVars,
                   genVars, shopVars, magVars>>

\* game.nextLevel(): state.level++, generateLevel(state.level, state.seed)
NextLevelCall ==
    /\ sess.calls < MaxSeedCalls
    /\ sess.made > 0
    /\ sess.level < MaxSeedLevel
    /\ \E random \in RandomSeeds :
         sess' = [generateLevelSeed(sess, sess.level + 1, sess.seed, random)
                      EXCEPT !.op = "nextLevel", !.arg = Null]
    /\ UNCHANGED <<gameVars, playerVars, rngVars, detVars, cloneVars, calcVars,
                   genVars, shopVars, magVars>>

\* game.restartStage(): generateLevel(currentLevel, currentSeed)
RestartStageCall ==
    /\ sess.calls < MaxSeedCalls
    /\ sess.made > 0
    /\ \E random \in RandomSeeds :
         sess' = [generateLevelSeed(sess, sess.level, sess.seed, random)
                      EXCEPT !.op = "restartStage", !.arg = Null]
    /\ UNCHANGED <<gameVars, playerVars, rngVars, detVars, cloneVars, calcVars,
                   genVars, shopVars, magVars>>

\* a draw from state.rng while a level is generated
SessionDraw ==
    /\ sess.made > 0
    /\ sess.op # "draw"
    /\ sess.rng.seed = sess.rng.originalSeed
    /\ sess' = [sess EXCEPT !.rng.seed = nextSeed(@), !.op = "draw"]
    /\ UNCHANGED <<gameVars, playerVars, rngVars, detVars, cloneVars, calcVars,
                   genVars, shopVars, magVars>>

(* --------------------- PowerUpSystem and Storage ---------------------- *)
\* POWER_UPS: maxLevel, baseCost and costMultiplier (in tenths)
POWER_UPS ==
    [id \in PowerUpIds |->
        CASE id = "speedBoost" -> [maxLevel |-> 5, baseCost |-> 50, costMultiplier |-> 18]
          [] id = "shield"     -> [maxLevel |-> 3, baseCost |-> 75, costMultiplier |-> 20]
          [] id = "magnet"     -> [maxLevel |-> 5, baseCost |-> 60, costMultiplier |-> 17]
          [] id = "extraLife"  -> [maxLevel |-> 3, baseCost |-> 100, costMultiplier |-> 25]]

\* DEFAULT_PROGRESS.maxPowerUpSlots
maxPowerUpSlots == 3

RECURSIVE Pow(_, _)
Pow(b, k) == IF k = 0 THEN 1 ELSE b * Pow(b, k - 1)

\* getPowerUpCost: Math.floor(baseCost * Math.pow(costMultiplier, currentLevel))
getPowerUpCost(id, currentLevel) ==
    (POWER_UPS[id].baseCost * Pow(POWER_UPS[id].costMultiplier, currentLevel))
        \div Pow(10, currentLevel)

\* the amounts addCoins and spendCoins are called with
CoinAmounts == {300}
SpendAmounts == {50}

\* the nested objects of DEFAULT_PROGRESS as the module created them
PristineDefaults == [powerUps |-> [id \in PowerUpIds |-> 0],
                     activePowerUps |-> <<>>,
                     highScores |-> {}]

\* shared: progress came from { ...DEFAULT_PROGRESS }, a shallow copy, so
\* progress.powerUps, progress.activePowerUps and progress.highScores are
\* the objects of DEFAULT_PROGRESS themselves.  highScores is the set of
\* levels that have an entry.
\* earned: the coins added so far; op, id, ok: the last call, the power-up
\* a refused call named, and what the call returned
NoShop == [coins |-> 0, highScores |-> {}, totalLevelsCompleted |-> 0,
           shared |-> FALSE, defaults |-> PristineDefaults, earned |-> 0,
           op |-> "none", id |-> "none", ok |-> FALSE]

ShopIdle == shop = NoShop

\* the game variables no PowerUpSystem method writes
shopFrame == <<level, lives, starsCollected, totalStars, isGameOver,
               isLevelComplete, activePowerUpEffects, playerExists, stars,
               obstacles, movingWalls, enemies, invincibilityTime,
               shieldActive, shieldTimeRemaining, timers, activeEffects,
               ev, hist, playerVars, rngVars, detVars, cloneVars, calcVars,
               genVars, sessVars, magVars>>

\* a write through progress.powerUps / activePowerUps / highScores reaches
\* DEFAULT_PROGRESS when the objects are shared
Aliased(sh, levels, equipped, scores) ==
    IF sh.shared
    THEN [powerUps |-> levels, activePowerUps |-> equipped, highScores |-> scores]
    ELSE sh.defaults

InSeq(x, q) == \E i \in 1..Len(q) : q[i] = x

\* Array.prototype.splice(indexOf(x), 1)
RECURSIVE Splice(_, _)
Splice(q, x) ==
    IF q = <<>> THEN <<>>
    ELSE IF Head(q) = x THEN Tail(q)
    ELSE <<Head(q)>> \o Splice(Tail(q), x)

\* PowerUpSystem.addCoins(amount)
AddCoins ==
    \E amount \in CoinAmounts :
        /\ shop.earned + amount <= MaxCoins
        /\ shop' = [shop EXCEPT !.coins = @ + amount,
                                !.earned = @ + amount, !.op = "addCoins",
                                !.id = "none", !.ok = TRUE]
        /\ UNCHANGED <<powerUps, activePowerUps, shopFrame>>

\* PowerUpSystem.spendCoins(amount)
SpendCoins ==
    \E amount \in SpendAmounts :
        /\ shop' = IF shop.coins < amount
                   THEN [shop EXCEPT !.op = "spendCoins", !.id = "none", !.ok = FALSE]
                   ELSE [shop EXCEPT !.coins = @ - amount, !.op = "spendCoins",
                                     !.id = "none", !.ok = TRUE]
        /\ UNCHANGED <<powerUps, activePowerUps, shopFrame>>

canPurchasePowerUpFree(id) ==
    ~(powerUps[id] >= POWER_UPS[id].maxLevel)

\* PowerUpSystem.canPurchasePowerUp(powerUpId)
canPurchasePowerUp(id) ==
    /\ ~(powerUps[id] >= POWER_UPS[id].maxLevel)
    /\ shop.coins >= getPowerUpCost(id, powerUps[id])

\* PowerUpSystem.purchasePowerUp(powerUpId)
PurchasePowerUp ==
    \E id \in PowerUpIds :
        IF ~canPurchasePowerUp(id)
        THEN /\ shop' = [shop EXCEPT !.op = "purchase", !.id = id, !.ok = FALSE]
             /\ UNCHANGED <<powerUps, activePowerUps, shopFrame>>
        ELSE LET levels == [powerUps EXCEPT ![id] = powerUps[id] + 1]
             IN /\ powerUps' = levels
                /\ shop' = [shop EXCEPT
                       !.coins = @ - getPowerUpCost(id, powerUps[id]),
                       !.defaults = Aliased(shop, levels, activePowerUps,
                                            shop.highScores),
                       !.op = "purchase", !.id = "none", !.ok = TRUE]
                /\ UNCHANGED <<activePowerUps, shopFrame>>

\* PowerUpSystem.canEquipPowerUp(powerUpId)
canEquipPowerUp(id) ==
    /\ powerUps[id] > 0
    /\ ~InSeq(id, activePowerUps)
    /\ ~(Len(activePowerUps) >= maxPowerUpSlots)

\* PowerUpSystem.equipPowerUp(powerUpId)
EquipPowerUp ==
    \E id \in PowerUpIds :
        IF ~canEquipPowerUp(id)
        THEN /\ shop' = [shop EXCEPT !.op = "equip", !.id = id, !.ok = FALSE]
             /\ UNCHANGED <<powerUps, activePowerUps, shopFrame>>
        ELSE LET equipped == Append(activePowerUps, id)
             IN /\ activePowerUps' = equipped
                /\ shop' = [shop EXCEPT
                       !.defaults = Aliased(shop, powerUps, equipped,
                                            shop.highScores),
                       !.op = "equip", !.id = "none", !.ok = TRUE]
                /\ UNCHANGED <<powerUps, shopFrame>>

\* PowerUpSystem.unequipPowerUp(powerUpId)
UnequipPowerUp ==
    \E id \in PowerUpIds :
        IF InSeq(id, activePowerUps)
        THEN LET equipped == Splice(activePowerUps, id)
             IN /\ activePowerUps' = equipped
                /\ shop' = [shop EXCEPT
                       !.defaults = Aliased(shop, powerUps, equipped,
                                            shop.highScores),
                       !.op = "unequip", !.id = "none", !.ok = TRUE]
                /\ UNCHANGED <<powerUps, shopFrame>>
        ELSE /\ shop' = [shop EXCEPT !.op = "unequip", !.id = "none", !.ok = FALSE]
             /\ UNCHANGED <<powerUps, activePowerUps, shopFrame>>

\* a levelCompletionTime past every target time, in ms
LevelTime == 120000

\* what Game._levelComplete writes to the progress: addCoins(coinsEarned),
\* incrementLevelsCompleted(), setHighScore(level, score), saveProgress()
LevelCompleteProgress ==
    LET coinsEarned == calculateCoinsReward(level, LevelTime, lives, 0)
        scores == shop.highScores \cup {level}
    IN /\ playerExists
       /\ shop.totalLevelsCompleted < MaxCompleted
       /\ shop.earned + coinsEarned <= MaxCoins
       /\ shop' = [shop EXCEPT
              !.coins = @ + coinsEarned,
              !.earned = @ + coinsEarned,
              !.totalLevelsCompleted = @ + 1,
              !.highScores = scores,
              !.defaults = Aliased(shop, powerUps, activePowerUps, scores),
              !.op = "levelComplete", !.id = "none", !.ok = TRUE]
       /\ UNCHANGED <<powerUps, activePowerUps, shopFrame>>

\* Storage.loadProgress() with nothing saved: { ...DEFAULT_PROGRESS }
\* PowerUpSystem.resetProgress(): Storage.resetProgress() removes the saved
\* item, then this.progress = Storage.loadProgress()
ResetProgress ==
    /\ powerUps' = shop.defaults.powerUps
    /\ activePowerUps' = shop.defaults.activePowerUps
    /\ shop' = [shop EXCEPT !.coins = 0, !.totalLevelsCompleted = 0,
                            !.highScores = shop.defaults.highScores,
                            !.shared = TRUE,
                            !.op = "resetProgress", !.id = "none", !.ok = TRUE]
    /\ UNCHANGED shopFrame

(* ------------------------ Star and the magnet ------------------------- *)
\* STAR.COLLECT_RANGE = 1.3; the touch range of checkCollection is
\* playerRadius + 0.5; const pullSpeed = 0.3
COLLECT_RANGE == 1300
TouchMargin == 500
PullSpeed == 300

\* Math.sqrt(dx * dx + dz * dz)
Distance(a, b) ==
    SqrtUp((b[1] - a[1]) * (b[1] - a[1]) + (b[2] - a[2]) * (b[2] - a[2]),
           0, 46340)

\* Star.checkCollection(playerPosition, playerRadius, magnetRange): the
\* star after the call and the value returned
starCheckCollection(star, playerPosition, playerRadius, magnetRange) ==
    LET dx == playerPosition[1] - star.position[1]
        dz == playerPosition[2] - star.position[2]
        dist == Distance(star.position, playerPosition)
        collectRange == playerRadius + COLLECT_RANGE + magnetRange
        pulled == [star EXCEPT
                      !.position = <<@[1] + TDiv(dx * PullSpeed, dist),
                                     @[2] + TDiv(dz * PullSpeed, dist)>>]
    IN IF star.collected THEN [star |-> star, result |-> FALSE]
       ELSE [star |-> IF dist > playerRadius + TouchMargin
                         /\ dist < collectRange /\ magnetRange > 0
                      THEN pulled ELSE star,
             result |-> dist < playerRadius + TouchMargin]

\* where the star starts, in thousandths: on the axes and on a diagonal,
\* inside the touch range, between touch range and magnet range, beyond it
StarPositions == {<<1000, 0>>, <<1600, 0>>, <<2000, 0>>, <<0, -2200>>,
                  <<-3100, 0>>, <<1500, 1500>>, <<5000, 0>>, <<0, 6000>>}

\* activePowerUpEffects.magnetRange || 0 with the magnet at levels 0..2
MagnetRanges == {applyPowerUpEffects([id \in PowerUpIds |-> l], <<"magnet">>,
                                      NoEffects).magnetRange : l \in 0..2}

\* pulled: the last frame moved the star
NoMagnet == [star |-> [position |-> <<0, 0>>, collected |-> FALSE],
             player |-> <<0, 0>>, magnetRange |-> 0, starsCollected |-> 0,
             pulled |-> FALSE, frames |-> 0]

MagIdle == mag = NoMagnet

\* Game._animate, the star loop for one star, the player standing still:
\* handlePlayerStarCollection calls checkCollection and collect, and the
\* loop counts the star
MagnetFrame ==
    /\ mag.frames < MaxMagnetFrames
    /\ LET r == IF ~mag.star.collected
                THEN starCheckCollection(mag.star, mag.player, RADIUS,
                                         mag.magnetRange)
                ELSE [star |-> mag.star, result |-> FALSE]
       IN mag' = [mag EXCEPT
                     !.star = IF r.result THEN [r.star EXCEPT !.collected = TRUE]
                              ELSE r.star,
                     !.starsCollected = IF r.result THEN @ + 1 ELSE @,
                     !.pulled = (r.star.position # mag.star.position),
                     !.frames = @ + 1]
    /\ UNCHANGED <<gameVars, playerVars, rngVars, detVars, cloneVars, calcVars,
                   genVars, sessVars, shopVars>>

\* a saved progress the constructor loads: the shield power-up at level s
\* and the speed boost at level v, each equipped when owned
SavedPowerUps(s, v) ==
    [id \in PowerUpIds |-> CASE id = "shield" -> s
                             [] id = "speedBoost" -> v
                             [] OTHER -> 0]

\* new Game(canvas): the constructor and _init, with the shield power-up of
\* the loaded progress at one of shieldLevels and the speed boost at one of
\* speedLevels
InitState(shieldLevels, speedLevels) ==
    /\ powerUps \in {SavedPowerUps(s, v) : s \in shieldLevels, v \in speedLevels}
    /\ activePowerUps =
           (IF powerUps["shield"] > 0 THEN <<"shield">> ELSE <<>>) \o
           (IF powerUps["speedBoost"] > 0 THEN <<"speedBoost">> ELSE <<>>)
    /\ activeEffects = applyPowerUpEffects(powerUps, activePowerUps, NoEffects)
    /\ activePowerUpEffects = activeEffects
    /\ lives = getStartingLives(activeEffects)
    /\ level = 1
    /\ starsCollected = 0
    /\ totalStars = 0
    /\ isGameOver = FALSE
    /\ isLevelComplete = FALSE
    /\ playerExists = FALSE
    /\ stars = <<>>
    /\ obstacles = 0
    /\ movingWalls = 0
    /\ enemies = 0
    /\ invincibilityTime = 0
    /\ shieldActive = FALSE
    /\ shieldTimeRemaining = 0
    /\ timers = 0
    /\ ev = NoEvents
    /\ hist = [NoHist EXCEPT !.startLives = lives]
    /\ inputSystem = [prevDashPressed |-> FALSE, prevBreakPressed |-> FALSE]
    /\ pev = NoPlayerEvents

InitGame(shieldLevels, speedLevels) ==
    /\ InitState(shieldLevels, speedLevels)
    /\ player = NewPlayer(NoEffects)

\* the game loop with no power-up owned
Init == InitGame({0}, {0}) /\ RngIdle /\ DetIdle /\ CloneIdle
            /\ CalcIdle
            /\ GenIdle
            /\ SessIdle
            /\ ShopIdle
            /\ MagIdle

Next ==
    \/ Frame
    \/ LevelCompleteTimeout
    \/ StartLevel(1, MaxLevel)
    \/ RestartGame
    \/ NextLevel
    \/ RestartStage

Spec == Init /\ [][Next]_vars

\* the collision and damage rules: the shield power-up at every level up to
\* MaxShieldLevel, levels with moving walls, and a player who collects no star
InitCollision == InitGame(0..MaxShieldLevel, {0}) /\ RngIdle /\ DetIdle /\ CloneIdle
            /\ CalcIdle
            /\ GenIdle
            /\ SessIdle
            /\ ShopIdle
            /\ MagIdle

NextCollision ==
    \/ FrameNoStar
    \/ StartLevel(WallLevel, WallLevel)
    \/ RestartStage

SpecCollision == InitCollision /\ [][NextCollision]_vars

\* star collection and level completion: every saved shield level, every
\* level and life-cycle call, and a player whom nothing touches
NextStars ==
    \/ FrameNoContact
    \/ LevelCompleteTimeout
    \/ StartLevel(1, MaxLevel)
    \/ RestartGame
    \/ NextLevel
    \/ RestartStage

SpecStars == InitCollision /\ [][NextStars]_vars

\* the dash and handbrake timers: a player at rest, the triggers pressed
\* and released freely
FrameStill ==
    \E dashPressed \in BOOLEAN, breakPressed \in BOOLEAN :
        PlayerFrame(<<0, 0>>, dashPressed, breakPressed, <<0, 0>>)

NextPlayer ==
    \/ FrameStill
    \/ StartLevel(1, 1)

SpecPlayer == Init /\ [][NextPlayer]_vars

\* the player's velocity over the first MaxMoveFrames frames of a level,
\* with the speed boost at every level up to MaxSpeedLevel
MoveInputs == {<<0, 0>>, <<1, 0>>, <<1, 1>>}
PushDirs == {<<0, 0>>, <<1, 0>>}

FrameMove ==
    /\ pev.frames < MaxMoveFrames
    /\ \E input \in MoveInputs, dashPressed \in BOOLEAN,
          breakPressed \in BOOLEAN, pushDir \in PushDirs :
           PlayerFrame(input, dashPressed, breakPressed, pushDir)

InitMove == InitGame({0}, 0..MaxSpeedLevel) /\ RngIdle /\ DetIdle /\ CloneIdle
            /\ CalcIdle
            /\ GenIdle
            /\ SessIdle
            /\ ShopIdle
            /\ MagIdle

NextMove ==
    \/ FrameMove
    \/ StartLevel(1, 1)

SpecMove == InitMove /\ [][NextMove]_vars

\* the generator alone: seed strings (as char codes) and up to MaxDraws
\* calls of next().  "", "a_1", "abc_1", "seed_2", and two seeds of level 1
\* whose hashes are 230538014 ("jjeqsaf") and -2^31 ("ktnjavh")
SeedStrings ==
    {<<>>, <<97, 95, 49>>, <<97, 98, 99, 95, 49>>,
     <<115, 101, 101, 100, 95, 50>>,
     <<106, 106, 101, 113, 115, 97, 102, 95, 49>>,
     <<107, 116, 110, 106, 97, 118, 104, 95, 49>>}

InitRng ==
    /\ InitGame({0}, {0})
    /\ rng \in {SeededRandom(str) : str \in SeedStrings}
    /\ rnd = NoDraw
    /\ DetIdle
    /\ CloneIdle
    /\ CalcIdle
    /\ GenIdle
    /\ SessIdle
    /\ ShopIdle
    /\ MagIdle

NextRng == RngNext

SpecRng == InitRng /\ [][NextRng]_vars

\* a generator constructed from a seed string, cloned at some point, with
\* draws and resets on both
InitClone ==
    /\ InitGame({0}, {0})
    /\ \E str \in SeedStrings :
           /\ rng = SeededRandom(str)
           /\ cev = NoCloneEvents(str)
    /\ rnd = NoDraw
    /\ cl = NoClone
    /\ DetIdle
    /\ CalcIdle
    /\ GenIdle
    /\ SessIdle
    /\ ShopIdle
    /\ MagIdle

NextClone ==
    \/ CallClone
    \/ DrawOriginal
    \/ DrawClone
    \/ ResetOriginal
    \/ ResetClone

SpecClone == InitClone /\ [][NextClone]_vars

\* One boundary resolution on its own: a player whose arena configuration
\* was set to one of the shapes, at any grid position with one of a few
\* velocities, is given one call of _updateBoundaries.
Positions == {<<GridStep * i, GridStep * j>> : i, j \in -MaxCoord..MaxCoord}

Velocities == {<<0, 0>>, <<250, 0>>, <<-180, 180>>, <<0, -250>>}

InitBoundary ==
    /\ InitState({0}, {0})
    /\ RngIdle
    /\ DetIdle
    /\ CloneIdle
    /\ CalcIdle
    /\ GenIdle
    /\ SessIdle
    /\ ShopIdle
    /\ MagIdle
    /\ player \in {[NewPlayer(NoEffects) EXCEPT !.shape = s, !.position = pos,
                                                !.velocity = v] :
                       s \in Shapes, pos \in Positions, v \in Velocities}

CallUpdateBoundaries ==
    /\ pev.kind = "none"
    /\ player' = updateBoundaries(player)
    /\ pev' = [pev EXCEPT !.kind = "boundaries"]
    /\ UNCHANGED <<gameVars, inputSystem, pureVars>>

NextBoundary == CallUpdateBoundaries

SpecBoundary == InitBoundary /\ [][NextBoundary]_vars

\* Two games generated from one seed string at level WallLevel, each started
\* at its own wall-clock time and each dispatching its frames at its own
\* pace.  "a_6", "abc_6", "seed_6"
DetSeeds == {<<97, 95, 54>>, <<97, 98, 99, 95, 54>>,
             <<115, 101, 101, 100, 95, 54>>}

\* performance.now() when a game is generated, and the milliseconds between
\* two frames that requestAnimationFrame dispatches
StartTimes == {0, 500}
FrameGaps == {16, 33}

InitDet ==
    /\ InitGame({0}, {0})
    /\ RngIdle
    /\ CloneIdle
    /\ CalcIdle
    /\ GenIdle
    /\ SessIdle
    /\ ShopIdle
    /\ MagIdle
    /\ \E str \in DetSeeds :
           runs \in [Runs -> {NewRun(str, now) : now \in StartTimes}]

NextDet == \E r \in Runs, gap \in FrameGaps : RunFrame(r, gap)

SpecDet == InitDet /\ [][NextDet]_vars

\* ARENA.getShapeForLevel and the moving walls of generateLevel for the
\* levels 1..MaxShapeLevel
InitShape ==
    /\ InitGame({0}, {0}) /\ RngIdle /\ DetIdle /\ CloneIdle /\ GenIdle
    /\ SessIdle
    /\ ShopIdle
    /\ MagIdle
    /\ calc \in {NoCalc(l, 0, 0, 0) : l \in 1..MaxShapeLevel}

NextShape == CallGetShapeForLevel \/ CallGenerateMovingWalls

SpecShape == InitShape /\ [][NextShape]_vars

\* _generateStars and _generateObstacles of generateLevel(l), the draws of
\* the generator being any of the Candidates
InitGen ==
    /\ InitGame({0}, {0}) /\ RngIdle /\ DetIdle /\ CloneIdle /\ CalcIdle
    /\ SessIdle
    /\ ShopIdle
    /\ MagIdle
    /\ gen \in {NewGen(l) : l \in 1..MaxGenLevel}

NextGen == StarAttempt \/ ObstacleAttempt

SpecGen == InitGen /\ [][NextGen]_vars

\* the session seed over calls of generateLevel, restartGame, nextLevel and
\* restartStage
InitSeed ==
    /\ InitGame({0}, {0}) /\ RngIdle /\ DetIdle /\ CloneIdle /\ CalcIdle
    /\ GenIdle
    /\ SessIdle
    /\ ShopIdle
    /\ MagIdle

NextSeed ==
    \/ GenerateLevelCall
    \/ RestartGameCall
    \/ NextLevelCall
    \/ RestartStageCall
    \/ SessionDraw

SpecSeed == InitSeed /\ [][NextSeed]_vars

\* Game.calculateCoinsReward: completion times in milliseconds around the
\* target times, lives left, and the coinBonus of Coin Magnet (0.1 a level)
RewardTimes == {0, 40000, 69400, 69500, 70000, 79999, 95000, 300000}

InitReward ==
    /\ InitGame({0}, {0}) /\ RngIdle /\ DetIdle /\ CloneIdle /\ GenIdle
    /\ SessIdle
    /\ ShopIdle
    /\ MagIdle
    /\ calc \in {NoCalc(l, t, n, 100 * c) :
                     l \in 1..MaxRewardLevel, t \in RewardTimes,
                     n \in 0..MaxRewardLives, c \in 0..MaxCoinLevel}

NextReward == CallCalculateCoinsReward

SpecReward == InitReward /\ [][NextReward]_vars

\* the shop between levels: a session that started without saved data
\* (progress is the shallow copy of DEFAULT_PROGRESS) or with a saved
\* shield one purchase below its maximum, then any calls on the PowerUpSystem
InitShop ==
    /\ InitGame({0, MaxShieldLevel}, {0})
    /\ RngIdle /\ DetIdle /\ CloneIdle /\ CalcIdle /\ GenIdle /\ SessIdle
    /\ MagIdle
    /\ shop = [NoShop EXCEPT !.shared = (powerUps["shield"] = 0)]

NextShop ==
    \/ StartLevel(1, 1)
    \/ AddCoins
    \/ SpendCoins
    \/ PurchasePowerUp
    \/ EquipPowerUp
    \/ UnequipPowerUp
    \/ LevelCompleteProgress
    \/ ResetProgress

SpecShop == InitShop /\ [][NextShop]_vars

\* the shop and the three ways a level starts again
NextSnapshot ==
    \/ StartLevel(1, 1)
    \/ AddCoins
    \/ PurchasePowerUp
    \/ EquipPowerUp
    \/ UnequipPowerUp
    \/ RestartGame
    \/ NextLevel
    \/ RestartStage

SpecSnapshot == InitShop /\ [][NextSnapshot]_vars


\* one star near a player that stands still, with and without the magnet
InitMagnet ==
    /\ InitGame({0}, {0})
    /\ RngIdle /\ DetIdle /\ CloneIdle /\ CalcIdle /\ GenIdle /\ SessIdle
    /\ ShopIdle
    /\ mag \in {[NoMagnet EXCEPT !.star.position = pos, !.magnetRange = m] :
                   pos \in StarPositions, m \in MagnetRanges}

NextMagnet == MagnetFrame

SpecMagnet == InitMagnet /\ [][NextMagnet]_vars

(* ------------------- properties of the frame loop --------------------- *)
\* C1 (SpecCollision): a frame takes a life only if no life has been lost
\* in the level yet, or if the frames since the last loss add up to at
\* least INVINCIBILITY_DURATION of simulated time -- whatever touches the
\* player in the frames between.
InvincibilityMonotonicity ==
    (ev.kind = "frame" /\ ev.damages > 0) =>
        (ev.sincePrev = -1 \/ ev.sincePrev >= INVINCIBILITY_DURATION)

\* the last frame of the window: a contact, 1.984 s after the only loss of
\* the level, takes no life
ContactAtEndOfWindow ==
    /\ ev.kind = "frame" /\ ev.contact /\ ev.damages = 0
    /\ hist.hits = 1
    /\ ev.sincePrev = INVINCIBILITY_DURATION - DeltaTime

\* C2 (Spec): a level-complete callback runs only in a level whose stars
\* are all collected, and at most once per generated level.
LevelCompleteExactlyOnce ==
    (ev.kind = "levelComplete") =>
        (starsCollected >= totalStars /\ hist.levelCompletes = 1)

\* C3 (SpecStars): starsCollected is the number of collected flags and at most
\* totalStars, and a frame never clears a collected flag.
StarFlagsCounted ==
    /\ starsCollected = CountTrue(stars)
    /\ starsCollected <= totalStars

StarsCollectedOnce ==
    []StarFlagsCounted /\
    [][ev'.kind = "frame" =>
           \A i \in DOMAIN stars : stars[i] => stars'[i]]_vars

\* a frame has collected the last star of a level
AllStarsCollected ==
    /\ ev.kind = "frame" /\ ev.collected = 1
    /\ totalStars > 0 /\ starsCollected = totalStars
    /\ \A i \in DOMAIN stars : stars[i]

\* C6 as stated (SpecCollision): with a shield duration in effect, the hit
\* that starts the shield takes no life.
FirstHitConsumesNoLife ==
    (ev.kind = "frame" /\ activePowerUpEffects.shieldDuration > 0
        /\ ev.shieldStarts > 0) => (ev.damages = 0 /\ lives = hist.startLives)

\* C6 as amended (SpecCollision): with a shield duration in effect, the
\* first hit of a level takes one life and starts the shield with that
\* duration, and a frame that begins with the shield active takes no life.
FirstHitStartsShield ==
    [][(ev'.kind = "frame" /\ activePowerUpEffects.shieldDuration > 0) =>
          /\ (hist.hits = 0 /\ ev'.damages > 0) =>
                 /\ lives' = lives - 1
                 /\ ev'.shieldStarts = 1
                 /\ shieldActive'
                 /\ shieldTimeRemaining' = activePowerUpEffects.shieldDuration
          /\ shieldTimeRemaining > DeltaTime => lives' = lives]_vars

\* a contact in a frame that begins with the shield active and the
\* invincibility timer run out
ContactWhileShielded ==
    /\ ev.kind = "frame" /\ ev.contact
    /\ activePowerUpEffects.shieldDuration > 0
    /\ hist.hits = 1 /\ lives = hist.startLives - 1
    /\ shieldActive /\ invincibilityTime = 0

\* C7 (SpecCollision): in a frame that begins, after collisionSystem.update,
\* with invincibility time left or the shield active, contacts change
\* nothing: no life lost, no push, no shield start, and the timers only
\* count down.
DamageGating ==
    [][(/\ ev'.kind = "frame" /\ ev'.contact
        /\ (invincibilityTime > DeltaTime \/ shieldTimeRemaining > DeltaTime)) =>
          /\ lives' = lives
          /\ isGameOver' = isGameOver
          /\ invincibilityTime' = Max(0, invincibilityTime - DeltaTime)
          /\ shieldTimeRemaining' = Max(0, shieldTimeRemaining - DeltaTime)
          /\ shieldActive' = (shieldTimeRemaining' > 0)
          /\ ev'.pushes = 0 /\ ev'.damages = 0 /\ ev'.shieldStarts = 0]_vars

\* a contact while the gate is closed, in the last frame of the
\* invincibility window
GatedContact ==
    /\ ev.kind = "frame" /\ ev.contact /\ ev.gateClosed
    /\ ev.pushes = 0 /\ ev.damages = 0
    /\ invincibilityTime = DeltaTime

(* C18 (SpecCollision): a contact in a frame that begins, after
   collisionSystem.update, with no invincibility time left and the shield
   inactive takes exactly one life and sets the invincibility time to
   INVINCIBILITY_DURATION, whatever the shield does; the shield is started
   on that hit, with the duration of the effect, exactly when a
   shieldDuration effect is active, and stays inactive otherwise. *)
GatePassingContact ==
    [][(ev'.kind = "frame" /\ ev'.contact /\ ~ev'.gateClosed) =>
          /\ lives' = lives - 1
          /\ ev'.damages = 1
          /\ invincibilityTime' = INVINCIBILITY_DURATION
          /\ IF activePowerUpEffects.shieldDuration # 0
             THEN /\ ev'.shieldStarts = 1
                  /\ shieldActive'
                  /\ shieldTimeRemaining' = activePowerUpEffects.shieldDuration
             ELSE /\ ev'.shieldStarts = 0
                  /\ ~shieldActive'
                  /\ shieldTimeRemaining' = 0]_vars

\* the second life of a level is lost, the shield of the first hit having
\* run out, and the shield is started again
SecondHitStartsShieldAgain ==
    /\ ev.kind = "frame" /\ ev.contact /\ ~ev.gateClosed
    /\ hist.hits = 2 /\ ev.damages = 1 /\ ev.shieldStarts = 1
    /\ invincibilityTime = INVINCIBILITY_DURATION
    /\ shieldActive
    /\ shieldTimeRemaining = activePowerUpEffects.shieldDuration

(* C19 (SpecCollision): a frame takes at most one life.  When several of
   obstacles, moving walls and enemies touch the player in one frame, the
   first contact in the order obstacles, moving walls, enemies takes the
   life and pushes the player, and the later contacts of the frame do
   nothing. *)
OneLifePerFrame ==
    [][ev'.kind = "frame" =>
          /\ lives' >= lives - 1
          /\ ev'.damages <= 1
          /\ ev'.pushes = ev'.damages
          /\ ev'.shieldStarts <= ev'.damages
          /\ ev'.several[2] = ev'.several[1]]_vars

\* an obstacle and an enemy, at least, touch the player in one frame and
\* the obstacle takes the life
SeveralContactsOneLife ==
    /\ ev.kind = "frame"
    /\ ev.several = <<"obstacle", "obstacle">>
    /\ ev.damages = 1 /\ ev.pushes = 1
    /\ lives = hist.startLives - 1

(* C20 (SpecCollision): game over is terminal until a restart.  The game-over
   event is emitted once, in the frame in which lives reaches 0; while
   isGameOver is set a frame changes neither lives nor starsCollected nor a
   star's collected flag nor the player nor the timers of the collision
   system, and only restartGame and restartStage clear isGameOver; lives is
   never negative. *)
GameOverStep ==
    /\ ev'.kind = "frame" =>
           /\ ev'.gameOvers = (IF lives' = 0 /\ lives > 0 THEN 1 ELSE 0)
           /\ isGameOver' = (lives' = 0)
    /\ (isGameOver /\ ev'.kind \in {"frame", "skip"}) =>
           /\ ev'.kind = "skip"
           /\ UNCHANGED <<lives, starsCollected, stars, player, isGameOver,
                          invincibilityTime, shieldActive, shieldTimeRemaining,
                          level, totalStars>>
    /\ (isGameOver /\ ~isGameOver') =>
           ev'.kind \in {"restartGame", "restartStage"}

GameOverExcludesLevelComplete ==
    /\ ~(isGameOver /\ isLevelComplete)
    /\ (ev.kind = "frame" /\ ev.damages > 0 /\ ev.collected = 0) =>
           ~(totalStars > 0 /\ starsCollected >= totalStars /\ timers > 0)
    /\ ev.kind = "levelComplete" => hist.gameOvers = 0

(* ----------------------- properties of Player ------------------------- *)
\* C4 (SpecMove): after a Player.update the speed is at most
\* MAX_SPEED x the speed multiplier x (the dash boost while dashing).
SpeedClamp ==
    pev.kind = "update" =>
        LET mult == IF activePowerUpEffects.speed # 0
                    THEN activePowerUpEffects.speed ELSE 1000
            bound == TDiv(MAX_SPEED * mult, 1000)
                         * (IF player.dashActive THEN DASH_SPEED_BOOST ELSE 1)
        IN pev.updated[1] * pev.updated[1] + pev.updated[2] * pev.updated[2]
               <= bound * bound

\* C5 (SpecPlayer): a dash or a handbrake starts only in a frame whose
\* trigger is pressed and was not pressed in the frame before.
RisingEdgeOnly ==
    /\ pev.dashStarted => (pev.dashPressed /\ ~pev.prevDash)
    /\ pev.breakStarted => (pev.breakPressed /\ ~pev.prevBreak)

(* -------------------- properties of SeededRandom ---------------------- *)
\* the step of an exact linear-congruential generator modulo 2^31
nextSeedExact(seed) == Low31(AddL(MulL(seed, Limbs(1103515245)), Limbs(12345)))

\* C10 (SpecRng): next() sets the seed to
\* (seed * 1103515245 + 12345) mod 2^31 in exact integer arithmetic and
\* returns seed / 2^31, a value v with 0 <= v < 1.
ExactLcgStep ==
    rnd.kind = "next" =>
        /\ rng.seed = nextSeedExact(rnd.prev)
        /\ rnd.num = rng.seed /\ rnd.den = <<0, 0, 2>>
        /\ LessL(rnd.num, rnd.den)

(* ------------------ properties of the arena boundary ------------------ *)
\* the containment region of a shape: the floor of the arena, widened by Tol
InRegion(shape, q) ==
    LET halfWidth == ARENA_WIDTH \div 2
        halfHeight == ARENA_HEIGHT \div 2
        armLength == Min(ARENA_WIDTH, ARENA_HEIGHT) \div 2
        x == q[1]
        z == q[2]
        nx == TDiv(x * 1000, halfWidth + Tol)
        nz == TDiv(z * 1000, halfHeight + Tol)
        sides == IF shape = "hexagon" THEN 6 ELSE 8
        dx == Abs(x) - (halfWidth - CornerRadius)
        dz == Abs(z) - (halfHeight - CornerRadius)
    IN CASE shape \in {"circle", "oval"} -> nx * nx + nz * nz <= 1000000
         [] shape = "diamond" ->
                Abs(x) * (halfHeight \div 100) + Abs(z) * (halfWidth \div 100)
                    <= (halfWidth \div 100) * (halfHeight + Tol)
         [] shape \in {"hexagon", "octagon"} ->
                \A i \in 0..(sides - 1) :
                    EdgeDistance(sides, armLength, i, q) >= -Tol
         [] shape = "cross" ->
                \/ Abs(x) <= armLength + Tol /\ 2 * Abs(z) <= ArmWidth + 2 * Tol
                \/ Abs(z) <= armLength + Tol /\ 2 * Abs(x) <= ArmWidth + 2 * Tol
         [] shape = "rounded_rect" ->
                /\ Abs(x) <= halfWidth + Tol
                /\ Abs(z) <= halfHeight + Tol
                /\ (dx > 0 /\ dz > 0) =>
                       dx * dx + dz * dz <= (CornerRadius + Tol) * (CornerRadius + Tol)
         [] OTHER -> Abs(x) <= halfWidth + Tol /\ Abs(z) <= halfHeight + Tol

\* the body of a player centred at c: the centre and the four points one
\* radius from it along the axes
BodyPoints(c) == {c, <<c[1] + RADIUS, c[2]>>, <<c[1] - RADIUS, c[2]>>,
                  <<c[1], c[2] + RADIUS>>, <<c[1], c[2] - RADIUS>>}

\* C9: after one call of _updateBoundaries the whole body of the player
\* lies inside the containment region of the arena's shape, whatever the
\* shape, the incoming position and the incoming velocity.
BoundaryContainment ==
    pev.kind = "boundaries" =>
        \A q \in BodyPoints(player.position) : InRegion(player.shape, q)

(* ---------------------- properties of two runs ------------------------ *)
\* C8: two games from the same seed string and level that have run the same
\* number of frames have the same moving-wall placement and the same
\* moving-wall position, whatever the wall-clock times of their frames.
SameFramesSamePositions ==
    (runs[1].str = runs[2].str /\ runs[1].frames = runs[2].frames) =>
        runs[1].wall = runs[2].wall

(* ------------------ properties of clone and reset --------------------- *)
\* C11: a generator and its clone that have made the same number of draws
\* since clone(), with no reset on either, hold the same seed (so they
\* return the same values), and a call on one of them leaves the other as
\* it was.
CloneInStep ==
    (cev.cloned /\ ~cev.parted /\ cev.gSince = cev.cSince) =>
        cl.seed = rng.seed

CloneIndependent ==
    [][/\ cev'.kind \in {"next", "reset"} => cl' = cl
       /\ cev'.kind \in {"cnext", "creset"} => rng' = rng]_vars

CloneSameSequence == []CloneInStep /\ CloneIndependent

\* a generator that has drawn twice is cloned, and both draw once more
ClonedAfterDrawsAndDrawn ==
    /\ cev.cloned /\ ~cev.parted
    /\ cev.gSince = 1 /\ cev.cSince = 1
    /\ cev.steps = 5

\* C12: a generator that was reset, be it constructed from the seed string
\* or obtained from clone(), holds after n further draws the seed a new
\* SeededRandom of the same seed string holds after n draws.
ResetRestoresOriginal ==
    /\ cev.gReset => rng.seed = cev.gRef
    /\ cev.cReset => cl.seed = cev.cRef

RewardFormula ==
    calc.kind = "coins" =>
        LET base == 10 + 5 * calc.level
            time == Max(0, (((60 + 10 * calc.level) * 1000 - calc.timeTaken) * 2)
                               \div 1000)
            sum == Max(5, base + time + 10 * calc.lives)
        IN /\ calc.coins = IF calc.coinBonus # 0
                           THEN (sum * (1000 + calc.coinBonus)) \div 1000
                           ELSE sum
           /\ calc.coins >= 5
           /\ (calc.level = 1 /\ calc.lives = 3 /\ calc.timeTaken = 40000
                 /\ calc.coinBonus = 0) => calc.coins = 105

\* a reward with a time bonus, lives left and a coin bonus
RewardWithAllBonuses ==
    /\ calc.kind = "coins" /\ calc.coinBonus > 0 /\ calc.lives > 0
    /\ calc.timeTaken = 69400 /\ calc.level = 1 /\ calc.coins > 5


(* C15: rejection-sampling termination.  _generateStars and
   _generateObstacles draw at most 100 candidate positions for one star or
   obstacle; an entity for which the 100th candidate is still invalid is
   omitted and the next entity is taken up; every pass of a placement loop
   brings the end of the generation nearer, so generateLevel finishes. *)
\* passes of the placement loops that can still follow
PassesLeft(g) ==
    IF g.phase = "stars"
    THEN (StarCount(g.level) - g.i + ObstacleCount(g.level)) * MaxAttempts
             - g.attempts
    ELSE IF g.phase = "obstacles"
    THEN (ObstacleCount(g.level) - g.i) * MaxAttempts - g.attempts
    ELSE 0

PlacementPass ==
    /\ PassesLeft(gen') < PassesLeft(gen)
    /\ gen.attempts + 1 <= MaxAttempts
    /\ gen'.last = "retry" => gen'.i = gen.i /\ gen'.phase = gen.phase
    /\ gen'.last = "omitted" =>
           /\ gen.attempts + 1 = MaxAttempts
           /\ gen'.stars = gen.stars /\ gen'.obstacles = gen.obstacles
    /\ gen'.last \in {"placed", "omitted"} =>
           /\ gen'.attempts = 0
           /\ \/ gen'.phase = gen.phase /\ gen'.i = gen.i + 1
              \/ gen'.phase # gen.phase /\ gen'.i = 0

\* C15: the passes left are never negative and are 0 exactly when
\* generation is past both routines, and every pass is a PlacementPass
RejectionSamplingTerminates ==
    /\ [](PassesLeft(gen) >= 0 /\ (PassesLeft(gen) = 0 <=> gen.phase \in {"done", "idle"}))
    /\ [][PlacementPass]_gen

\* generateLevel has passed both placement routines with a star and an
\* obstacle omitted after 100 invalid candidates each
GenerationDoneWithOmissions ==
    /\ gen.phase = "done"
    /\ Len(gen.stars) < StarCount(gen.level)
    /\ Len(gen.obstacles) < ObstacleCount(gen.level)
    /\ gen.last = "omitted"


(* C16: moving walls appear from level 5 onward.  generateLevel creates no
   moving wall for a level below 5, and for every level from 5 on it creates
   at least one, their number being min(2, floor((level - 4) / 2)). *)
MovingWallsFromLevelFive ==
    calc.kind = "walls" =>
        /\ calc.level < 5 => calc.walls = 0
        /\ calc.level >= 5 =>
               /\ calc.walls >= 1
               /\ calc.walls = Min(2, (calc.level - 4) \div 2)


(* ------------------- properties of the session seed ------------------- *)
(* C17: session seed.  The first generateLevel call without a seed sets a
   random non-empty seed; afterwards nextLevel, restartStage and
   generateLevel(level, null) leave the session seed unchanged, and it
   changes only when a seed is passed explicitly or restartGame is called;
   every generated level draws from a fresh SeededRandom created from
   seed + "_" + levelNumber. *)
SessionSeedStep ==
    sess'.op # "draw" =>
        /\ (sess.made = 0 /\ sess'.op = "generateLevel" /\ sess'.arg = Null)
               => (sess'.seed \in RandomSeeds /\ Truthy(sess'.seed))
        /\ (/\ sess.made > 0
            /\ \/ sess'.op \in {"nextLevel", "restartStage"}
               \/ (sess'.op = "generateLevel" /\ sess'.arg = Null))
               => sess'.seed = sess.seed
        /\ (sess.made > 0 /\ sess'.seed # sess.seed)
               => (sess'.op = "restartGame" \/ sess'.arg # Null)
        /\ sess'.rng =
               SeededRandom(sess'.seed \o <<95>>
                                \o toString(<<sess'.level, 0, 0>>))

\* C17: every call that touches the session seed is a SessionSeedStep
SessionSeed == [][SessionSeedStep]_sess


(* C22 (SpecGen): every generated level is completable.  Once _generateStars
   is through, totalStars is the number of stars placed in the level, also
   when rejection sampling has skipped a star, so that collecting every
   placed star reaches starsCollected >= totalStars. *)
TotalStarsArePlaced ==
    gen.phase \in {"obstacles", "done"} => gen.totalStars = Len(gen.stars)

(* ----------------------- properties of the shop ----------------------- *)
\* C29: after any sequence of addCoins, spendCoins, purchasePowerUp,
\* equipPowerUp and unequipPowerUp calls the coin balance is never negative,
\* every power-up level lies between 0 and its maxLevel, the equipped list
\* has no duplicates, only owned power-ups and at most maxPowerUpSlots
\* entries; a purchase or equip that returns false changes none of them
ShopEconomyStep ==
    /\ shop'.coins >= 0
    /\ \A id \in PowerUpIds :
           powerUps'[id] >= 0 /\ powerUps'[id] <= POWER_UPS[id].maxLevel
    /\ \A i, j \in 1..Len(activePowerUps') :
           activePowerUps'[i] = activePowerUps'[j] => i = j
    /\ \A i \in 1..Len(activePowerUps') : powerUps'[activePowerUps'[i]] > 0
    /\ Len(activePowerUps') <= maxPowerUpSlots
    /\ (shop'.op \in {"purchase", "equip"} /\ ~shop'.ok) =>
           /\ shop'.coins = shop.coins
           /\ powerUps' = powerUps
           /\ activePowerUps' = activePowerUps

ResetRestoresDefaults ==
    shop.op = "resetProgress" =>
        /\ shop.coins = 0
        /\ \A id \in PowerUpIds : powerUps[id] = 0
        /\ activePowerUps = <<>>
        /\ shop.highScores = {}
        /\ shop.totalLevelsCompleted = 0

\* C23: when restartGame, nextLevel or restartStage returns,
\* state.activePowerUpEffects equals the effects of the power-ups equipped
\* at that moment and state.lives equals 3 + the extraLives of that
\* snapshot, whatever was purchased, equipped or unequipped before
SnapshotStep ==
    (shop' = shop /\ ev'.kind \in {"restartGame", "nextLevel", "restartStage"}) =>
        /\ activePowerUpEffects' =
               applyPowerUpEffects(powerUps', activePowerUps', NoEffects)
        /\ lives' = BaseLives + activePowerUpEffects'.extraLives

SnapshotAtLevelStart == [][SnapshotStep]_vars

(* ------------------ properties of dash and handbrake ------------------ *)
DashOf(p) == <<p.dashActive, p.dashTimeRemaining, p.dashCooldownRemaining>>
HandbrakeOf(p) == <<p.handbrakeActive, p.handbrakeTimeRemaining,
                    p.handbrakeCooldownRemaining>>
WithoutDash(p) == [p EXCEPT !.dashActive = FALSE, !.dashTimeRemaining = 0,
                            !.dashCooldownRemaining = 0]
WithoutHandbrake(p) == [p EXCEPT !.handbrakeActive = FALSE,
                                 !.handbrakeTimeRemaining = 0,
                                 !.handbrakeCooldownRemaining = 0]

\* one ability over one Player.update: with active flag a, time remaining
\* t and cooldown c before (primed: after), either it is activated, which
\* needs the time remaining and the cooldown to have run out, and then runs
\* for duration, or both timers count down by the frame time
AbilityStep(a1, t, t1, c, c1, duration, cooldown) ==
    /\ a1 = (t1 > 0)
    /\ IF t1 > t
       THEN /\ t1 = duration /\ c1 = cooldown
            /\ t <= DeltaTime /\ c <= DeltaTime
       ELSE /\ t1 = Max(0, t - DeltaTime)
            /\ c1 = Max(0, c - DeltaTime)

\* C24: dash and handbrake each run their own cycle: once activated the
\* ability is active for its duration (dash 0.3 s, handbrake 0.6 s) and then
\* inactive, it is not activated again before its cooldown has run out, and
\* neither ability changes the active flag, time remaining or cooldown of
\* the other
AbilityCycleStep ==
    pev'.kind = "update" =>
        /\ AbilityStep(player'.dashActive,
                       player.dashTimeRemaining, player'.dashTimeRemaining,
                       player.dashCooldownRemaining,
                       player'.dashCooldownRemaining,
                       DASH_DURATION, DASH_COOLDOWN)
        /\ AbilityStep(player'.handbrakeActive,
                       player.handbrakeTimeRemaining,
                       player'.handbrakeTimeRemaining,
                       player.handbrakeCooldownRemaining,
                       player'.handbrakeCooldownRemaining,
                       HANDBRAKE_DURATION, DASH_COOLDOWN)
        /\ HandbrakeOf(player') =
               HandbrakeOf(playerUpdate(WithoutDash(player), DeltaTime, <<0, 0>>,
                                        FALSE, pev'.breakPressed,
                                        activePowerUpEffects))
        /\ DashOf(player') =
               DashOf(playerUpdate(WithoutHandbrake(player), DeltaTime, <<0, 0>>,
                                   pev'.dashPressed, FALSE,
                                   activePowerUpEffects))

AbilityCycles == [][AbilityCycleStep]_vars

\* the handbrake is activated while a dash started earlier is running
HandbrakeStartsDuringDash ==
    /\ pev.kind = "update"
    /\ player.handbrakeTimeRemaining = HANDBRAKE_DURATION
    /\ player.dashActive
    /\ player.dashTimeRemaining < DASH_DURATION

(* --------------- properties of the shaped boundary checks ------------- *)
\* the step CallUpdateBoundaries on a player in an arena of the shape
BoundaryCallOn(shapes) ==
    pev.kind = "none" /\ pev'.kind = "boundaries" /\ player.shape \in shapes

\* how far position lies beyond edge i of the polygon, measured outward:
\* the normal of EdgeNormal points to the centre (the centre has a positive
\* EdgeDistance to every edge)
OutwardDistance(sides, radius, i, position) ==
    -EdgeDistance(sides, radius, i, position)

\* C25: in the hexagon and the octagon a player whose centre is farther
\* than one radius inside every edge keeps its position and velocity; only
\* an edge the player is outside of (closer than one radius to the edge
\* line, or beyond it) triggers push-back and reflection
PolygonInteriorStep ==
    BoundaryCallOn({"hexagon", "octagon"}) =>
        LET sides == IF player.shape = "hexagon" THEN 6 ELSE 8
            radius == Min(ARENA_WIDTH, ARENA_HEIGHT) \div 2
        IN (\A i \in 0..(sides - 1) :
                OutwardDistance(sides, radius, i, player.position) < -RADIUS)
           => /\ player'.position = player.position
              /\ player'.velocity = player.velocity

PolygonInteriorUntouched == [][PolygonInteriorStep]_vars

\* C26: in the diamond, a player beyond the L1 threshold has its velocity
\* reflected only if it moves outward (positive component along the outward
\* normal); a player moving inward keeps its velocity, and afterwards the
\* velocity never points outward
DiamondReflectStep ==
    BoundaryCallOn({"diamond"}) =>
        LET halfWidth == ARENA_WIDTH \div 2
            halfHeight == ARENA_HEIGHT \div 2
            x == player.position[1]
            z == player.position[2]
            normalizedDist == TDiv(Abs(x) * 1000, halfWidth)
                                  + TDiv(Abs(z) * 1000, halfHeight)
            outward == Normalize(Sign(x) * halfHeight, Sign(z) * halfWidth)
        IN normalizedDist > 1000 - TDiv(RADIUS * 1000, Min(halfWidth, halfHeight))
           => /\ Dot(player.velocity, outward) <= 0
                     => player'.velocity = player.velocity
              /\ Dot(player'.velocity, outward) <= 0

DiamondReflectsOutwardOnly == [][DiamondReflectStep]_vars

\* C27: in the cross, a player inside an arm is clamped like a rectangle
\* with that arm's half-extents, armLength - radius along the arm and
\* armWidth/2 - radius across it, so within those extents it is free to
\* travel from the centre to the end of the arm
CrossArmStep ==
    BoundaryCallOn({"cross"}) =>
        LET armLength == Min(ARENA_WIDTH, ARENA_HEIGHT) \div 2
            x == player.position[1]
            z == player.position[2]
        IN /\ (Abs(z) <= ArmWidth \div 2 - RADIUS /\ Abs(x) <= armLength - RADIUS)
                  => player'.position = player.position
           /\ (Abs(x) <= ArmWidth \div 2 - RADIUS /\ Abs(z) <= armLength - RADIUS)
                  => player'.position = player.position

CrossArmExtents == [][CrossArmStep]_vars

(* ---------------------- properties of the magnet ---------------------- *)
\* C28: with a magnet range > 0 and a player standing still, an
\* uncollected star at a distance d with playerRadius + 0.5 < d <
\* playerRadius + 1.3 + magnetRange moves by the pull speed toward the
\* player, its distance strictly decreasing without passing the player; a
\* star that is being pulled keeps approaching until it is collected, and
\* it is counted once; a star outside that range, or any star when
\* magnetRange is 0, does not move
MagnetPullStep ==
    LET d == Distance(mag.star.position, mag.player)
        d1 == Distance(mag'.star.position, mag'.player)
        inDeadZone == /\ ~mag.star.collected
                      /\ mag.magnetRange > 0
                      /\ d > RADIUS + TouchMargin
                      /\ d < RADIUS + COLLECT_RANGE + mag.magnetRange
    IN /\ inDeadZone =>
              /\ d1 < d /\ d1 > 0
              /\ Abs((d - d1) - PullSpeed) <= 2
       /\ ~inDeadZone => mag'.star.position = mag.star.position
       /\ mag.pulled => (mag'.star.collected \/ d1 < d)
       /\ mag'.starsCollected = IF mag'.star.collected THEN 1 ELSE 0

MagnetPull == [][MagnetPullStep]_vars

====
